---- MODULE Spec2Model ----
(***************************************************************************)
(* Model of the dual damascene process simulator                           *)
(* (src/docs/03-cmos-beol/damascene_process_simulator.py).                 *)
(*                                                                         *)
(* Units.  The source computes in floating point with SI units.  The model *)
(* computes the same expressions over exact rationals held as integers:    *)
(*   lengths in nm, rates in nm/s, times in ms (so rate * dt is in pm),    *)
(*   fractions (anisotropy, step coverage, selectivity) in percent.        *)
(* int(x) of the source is floor division of non-negative integers.        *)
(* The wafer is a small one with the default pixel pitch: wafer_height is  *)
(* 3 nm per row and wafer_width 4 nm per column, as in the default         *)
(* 1.5 um x 2 um wafer at resolution 500, so dy and dx are whole numbers   *)
(* of nm.  The two additive fields of the Electroplater are fixed-point:   *)
(* the accelerator in tenths, the suppressor in thousandths.               *)
(***************************************************************************)
EXTENDS Integers, Sequences, FiniteSets, TLC

\* ------------------------------------------------------------------ bounds
\* DamasceneWafer(params, resolution): rows and columns of the grid.
Resolution == 20
\* Number of tool operations applied in the free-operation specification.
MaxOps == 3
\* The plate_step calls of a plating run on its own
MaxPlateSteps == 4
\* The etch and deposit calls that prepare the wafer of such a run
MaxPrepare == 2
\* The longest Markdown file of the scripts' specifications, in lines.
MaxLines == 3

\* ------------------------------------------------------------ class Material
VACUUM == 0
SILICON == 1
OXIDE == 2
NITRIDE == 3
BARRIER == 4
COPPER_SEED == 5
COPPER == 6
PHOTORESIST == 7
Material == VACUUM..PHOTORESIST

\* ------------------------------------------------- hard-coded program numbers
\* materials[0:10, :] = SILICON
SiliconRows == 10
\* current_depth >= target_depth * 0.95, in percent
FinishedPercent == 95
\* etch_selectivity = 1.0 for an OXIDE target, 0.05 otherwise, in percent
SelectivityOxide == 100
SelectivityOther == 5

Rows == 0..(Resolution - 1)
Cols == 0..(Resolution - 1)

\* The same function, held as an explicit array (TLC would otherwise keep a
\* function expression unevaluated and evaluate it again at every use)
Array(f) == f @@ << >>

Min(a, b) == IF a <= b THEN a ELSE b
Max(a, b) == IF a >= b THEN a ELSE b
SetMax(S) == CHOOSE v \in S : \A w \in S : w <= v
SetMin(S) == CHOOSE v \in S : \A w \in S : v <= w

\* ------------------------------------------------------- ProcessParameters
\* The default record, on a wafer of Resolution rows of 3 nm and Resolution
\* columns of 4 nm, with the layer stack scaled to fit above the 10 silicon
\* rows.  Rates, coverages, selectivities and the plating and CMP numbers
\* are the defaults of the dataclass.
ProcessParameters ==
    [ wafer_width |-> 4 * Resolution, wafer_height |-> 3 * Resolution,
      bottom_oxide |-> 33, nitride_etch_stop |-> 9, top_oxide |-> 12,
      via_width |-> 8, trench_width |-> 16, trench_depth |-> 6,
      etch_rate_oxide |-> 100, etch_rate_nitride |-> 5, etch_anisotropy |-> 95,
      barrier_thickness |-> 3, barrier_step_coverage |-> 70,
      seed_thickness |-> 3, seed_step_coverage |-> 60,
      plating_rate_base |-> 50, plating_enhancement |-> 5, diffusion_length |-> 100,
      cmp_removal_rate |-> 200, cmp_selectivity_cu |-> 100,
      cmp_selectivity_barrier |-> 50, cmp_selectivity_oxide |-> 10,
      dishing_factor |-> 5 ]

\* int() of a quotient: truncation toward zero
Trunc(a, b) == IF a >= 0 THEN a \div b ELSE -((-a) \div b)

\* self.dx = wafer_width / resolution, self.dy = wafer_height / resolution
dx(p) == p.wafer_width \div Resolution
dy(p) == p.wafer_height \div Resolution
\* int(length / dy)
ToRows(p, length) == Trunc(length, dy(p))
\* int(length / dx)
ToCols(p, length) == Trunc(length, dx(p))

\* --------------------------------------------------------- DamasceneWafer
\* _initialize_layers: later slice assignments overwrite earlier ones and
\* numpy clips a slice to the grid.
_initialize_layers(p) ==
    LET y_bottom_oxide == ToRows(p, p.bottom_oxide)
        y_nitride == ToRows(p, p.bottom_oxide + p.nitride_etch_stop)
        y_top == ToRows(p, p.bottom_oxide + p.nitride_etch_stop + p.top_oxide)
        Layer(y) == IF y_nitride <= y /\ y < y_top THEN OXIDE
                    ELSE IF y_bottom_oxide <= y /\ y < y_nitride THEN NITRIDE
                    ELSE IF SiliconRows <= y /\ y < y_bottom_oxide THEN OXIDE
                    ELSE IF y < SiliconRows THEN SILICON
                    ELSE VACUUM
    IN [y \in Rows |-> [x \in Cols |-> Layer(y)]]

\* np.where(column != VACUUM)[0][-1], or -1 when the column is empty
RECURSIVE ScanDown(_, _, _)
ScanDown(m, x, y) ==
    IF y < 0 THEN -1 ELSE IF m[y][x] # VACUUM THEN y ELSE ScanDown(m, x, y - 1)

TopRow(m, x) == ScanDown(m, x, Resolution - 1)

\* get_surface_height in rows (the source multiplies by dy); an empty column
\* reads 0
get_surface_height(m) == Array([x \in Cols |-> Max(TopRow(m, x), 0)])

\* ----------------------------------------------------------- PlasmaEtcher
\* One cell of the downward pass of etch_feature (lines 236-244): the value
\* the cell holds afterwards.  np.random.random() > etch_selectivity is
\* never true for selectivity 1.0; for 0.05 either outcome is possible, and
\* survive is the set of cells for which the draw fails.
EtchCell(mat, cell, target_material, etch_selectivity, survive) ==
    IF mat = NITRIDE
    THEN IF etch_selectivity < 100 /\ cell \notin survive THEN VACUUM ELSE mat
    ELSE IF mat = target_material \/ mat = OXIDE THEN VACUUM ELSE mat

\* Whether the pass counts the cell in current_depth (the elif branch, 242-244)
CountsDepth(mat, target_material) ==
    mat # NITRIDE /\ (mat = target_material \/ mat = OXIDE)

\* The pass as range(1, etch_pixels + 1) would make it: from below the surface
PassRowsBelowSurface(surface, etch_pixels) ==
    {y \in Rows : y < surface /\ y >= surface - etch_pixels}

\* for dy in range(etch_pixels): y = surface - dy; if y < 0: break
PassRows(surface, etch_pixels) ==
    {y \in Rows : y <= surface /\ y > surface - etch_pixels}

\* The downward pass in column x (lines 231-244)
EtchDown(m, x, surface, c) ==
    Array([y \in Rows |->
        IF y \in PassRows(surface, c.etch_pixels)
        THEN [m[y] EXCEPT ![x] =
                 EtchCell(m[y][x], <<y, x>>, c.target_material, c.etch_selectivity, c.survive)]
        ELSE m[y]])

\* Lateral etching into column xl (lines 248-259): rows surface - dy for
\* dy in range(lateral_etch), cells of the target material only
EtchSide(m, xl, surface, c) ==
    IF xl < 0 \/ xl >= Resolution THEN m
    ELSE Array([y \in Rows |->
            IF y <= surface /\ y > surface - c.lateral_etch /\ y >= 0
               /\ m[y][xl] = c.target_material
            THEN [m[y] EXCEPT ![xl] = VACUUM]
            ELSE m[y]])

EtchLateral(m, x, surface, c) ==
    IF c.lateral_etch > 0 /\ surface >= c.lateral_etch
    THEN EtchSide(EtchSide(m, x - c.lateral_etch, surface, c), x + c.lateral_etch, surface, c)
    ELSE m

\* max(current_depth, dy * self.wafer.dy) over the pass of one column, in rows
ColumnDepth(m, x, surface, c) ==
    LET D == {surface - y : y \in {yy \in PassRows(surface, c.etch_pixels) :
                                      CountsDepth(m[yy][x], c.target_material)}}
    IN IF D = {} THEN 0 ELSE SetMax(D)

\* for x in range(start_x, end_x): the columns in order, each on the grid the
\* previous ones left (lines 222-259).  r is [materials, current_depth, surface]
RECURSIVE EtchColumns(_, _, _)
EtchColumns(r, x, c) ==
    IF x >= c.end_x THEN r
    ELSE LET surface == TopRow(r.materials, x)
         IN IF surface < 0
            THEN EtchColumns(r, x + 1, c)
            ELSE EtchColumns(
                   [materials |-> EtchLateral(EtchDown(r.materials, x, surface, c), x, surface, c),
                    current_depth |-> Max(r.current_depth, ColumnDepth(r.materials, x, surface, c)),
                    surface |-> [r.surface EXCEPT ![x] = surface]],
                   x + 1, c)

\* The lateral etch as round() in place of int() would make it
LateralEtchRounded(etch_pixels, anisotropy) ==
    (etch_pixels * (100 - anisotropy) + 50) \div 100

\* int(etch_pixels * (1 - anisotropy))
LateralEtch(etch_pixels, anisotropy) == (etch_pixels * (100 - anisotropy)) \div 100

\* The geometry and rates etch_feature derives from its arguments (196-217)
EtchContext(p, center_x, width, dt, target_material, survive) ==
    LET center_idx == ToCols(p, center_x)
        width_idx == ToCols(p, width)
        etch_rate == IF target_material = OXIDE THEN p.etch_rate_oxide
                     ELSE p.etch_rate_nitride
        etch_pixels == (etch_rate * dt) \div (1000 * dy(p))
    IN [start_x |-> Max(0, center_idx - (width_idx \div 2)),
        end_x |-> Min(Resolution, center_idx + (width_idx \div 2)),
        etch_selectivity |-> IF target_material = OXIDE THEN SelectivityOxide
                             ELSE SelectivityOther,
        etch_pixels |-> etch_pixels,
        lateral_etch |-> LateralEtch(etch_pixels, p.etch_anisotropy),
        target_material |-> target_material,
        survive |-> survive]

\* current_depth >= target_depth * 0.95, current_depth = rows * dy
DepthReached(p, depth_rows, target_depth) ==
    depth_rows * dy(p) * 100 >= target_depth * FinishedPercent

\* PlasmaEtcher.etch_feature: the grid it leaves and the value it returns
etch_feature(m, p, center_x, width, target_depth, dt, target_material, survive) ==
    LET c == EtchContext(p, center_x, width, dt, target_material, survive)
        r == EtchColumns([materials |-> m, current_depth |-> 0,
                          surface |-> [x \in Cols |-> -1]], c.start_x, c)
    IN [materials |-> r.materials,
        finished |-> DepthReached(p, r.current_depth, target_depth),
        current_depth |-> r.current_depth,
        surface |-> r.surface,
        start_x |-> c.start_x, end_x |-> c.end_x,
        etch_pixels |-> c.etch_pixels, lateral_etch |-> c.lateral_etch,
        target_material |-> target_material]

\* The NITRIDE cells a call draws np.random.random() for (line 240): those
\* its downward passes meet.  The surface a column is scanned from does not
\* depend on the draws (only the lateral etch changes another column, and it
\* draws nothing), so the passes are those of the call in which no cell
\* survives.  With selectivity 1.0 no draw removes a cell.
NitrideCells(m, p, center_x, width, dt, target_material) ==
    LET c == EtchContext(p, center_x, width, dt, target_material, {})
        r == EtchColumns([materials |-> m, current_depth |-> 0,
                          surface |-> [x \in Cols |-> -1]], c.start_x, c)
    IN IF c.etch_selectivity >= 100 THEN {}
       ELSE {cell \in Rows \X Cols :
               /\ c.start_x <= cell[2] /\ cell[2] < c.end_x
               /\ r.surface[cell[2]] >= 0
               /\ cell[1] \in PassRows(r.surface[cell[2]], c.etch_pixels)
               /\ m[cell[1]][cell[2]] = NITRIDE}

\* ----------------------------------------------------------- PVDDepositor
\* The top-surface deposit as y = surface + dy would make it: from the
\* surface cell itself
DepositTopFromSurface(m, x, surface, material, target_pixels) ==
    Array([y \in Rows |->
        IF y >= surface /\ y < surface + target_pixels
        THEN [m[y] EXCEPT ![x] = material]
        ELSE m[y]])

\* The top-surface deposit of one column (lines 291-294)
DepositTop(m, x, surface, material, target_pixels) ==
    Array([y \in Rows |->
        IF y > surface /\ y <= surface + target_pixels
        THEN [m[y] EXCEPT ![x] = material]
        ELSE m[y]])

\* The sidewall deposit as it would be without the test for VACUUM: every
\* cell of the range is written
DepositSideOverwrite(m, x, xn, surface, material, sidewall_thickness) ==
    LET neighbour == TopRow(m, xn)
    IN IF neighbour > surface
       THEN Array([y \in Rows |->
               IF y >= surface /\ y < surface + Min(sidewall_thickness, neighbour - surface)
               THEN [m[y] EXCEPT ![x] = material]
               ELSE m[y]])
       ELSE m

\* The sidewall deposit of column x against the neighbour xn (lines 302-318):
\* for dy in range(min(sidewall_thickness, neighbour - surface)) the cell
\* (surface + dy, x) is written if it is VACUUM
DepositSide(m, x, xn, surface, material, sidewall_thickness) ==
    LET neighbour == TopRow(m, xn)
    IN IF neighbour > surface
       THEN Array([y \in Rows |->
               IF y >= surface /\ y < surface + Min(sidewall_thickness, neighbour - surface)
                  /\ m[y][x] = VACUUM
               THEN [m[y] EXCEPT ![x] = material]
               ELSE m[y]])
       ELSE m

\* if surface < resolution - 10: left neighbour (x > 0), then right
\* neighbour (x < resolution - 1)
DepositSidewalls(m, x, surface, material, sidewall_thickness) ==
    IF surface < Resolution - 10
    THEN LET ml == IF x > 0
                   THEN DepositSide(m, x, x - 1, surface, material, sidewall_thickness)
                   ELSE m
         IN IF x < Resolution - 1
            THEN DepositSide(ml, x, x + 1, surface, material, sidewall_thickness)
            ELSE ml
    ELSE m

\* for x in range(resolution), each column on the grid the previous left
RECURSIVE DepositColumns(_, _, _, _, _)
DepositColumns(m, x, material, target_pixels, sidewall_thickness) ==
    IF x >= Resolution THEN m
    ELSE LET surface == TopRow(m, x)
         IN IF surface < 0
            THEN DepositColumns(m, x + 1, material, target_pixels, sidewall_thickness)
            ELSE DepositColumns(
                   DepositSidewalls(DepositTop(m, x, surface, material, target_pixels),
                                    x, surface, material, sidewall_thickness),
                   x + 1, material, target_pixels, sidewall_thickness)

\* int(target_pixels * step_coverage)
SidewallThickness(target_pixels, step_coverage) == (target_pixels * step_coverage) \div 100

\* PVDDepositor.deposit_conformal
deposit_conformal(m, p, material, thickness, step_coverage) ==
    LET target_pixels == ToRows(p, thickness)
    IN DepositColumns(m, 0, material, target_pixels,
                      SidewallThickness(target_pixels, step_coverage))

\* ----------------------------------------------------------- Electroplater
\* neighborhood = 5 in _calculate_depth_factor
Neighborhood == 5
\* min(depth / 200e-9, 1.0): the normalising depth in nm
FeatureDepth == 200
\* np.clip(accelerator, 0, 10) in tenths
AcceleratorMax == 100
\* np.clip(suppressor, 0.1, 1) in thousandths
SuppressorMin == 100
SuppressorOne == 1000
\* suppressor *= 0.99, in percent
SuppressorDecay == 99

\* np.where((column == COPPER_SEED) | (column == COPPER))[0][-1], or -1
CopperTop(m, x) ==
    LET S == {y \in Rows : m[y][x] = COPPER_SEED \/ m[y][x] = COPPER}
    IN IF S = {} THEN -1 ELSE SetMax(S)

\* _calculate_depth_factor: the numerator of min(depth / 200e-9, 1.0) over
\* the denominator FeatureDepth
_calculate_depth_factor(m, p, x, y) ==
    LET tops == {TopRow(m, xc) : xc \in {c \in Cols : x - Neighborhood <= c /\ c <= x + Neighborhood}}
        max_height == SetMax(tops \cup {y})
    IN Min((max_height - y) * dy(p), FeatureDepth)

\* _calculate_recess_depth
_calculate_recess_depth(m, p, x, y) == _calculate_depth_factor(m, p, x, y)

\* The accumulation as it would be were it the same at every copper surface,
\* recessed or not: that of the normalising depth
AcceleratorGainFlat(p, dt, recess) ==
    (dt * 10000 * 1000) \div p.diffusion_length

\* dt * recess_depth / diffusion_length in tenths: dt is in seconds and
\* diffusion_length in metres in the source
AcceleratorGain(p, dt, recess) ==
    (dt * ((recess * 10000) \div FeatureDepth) * 1000) \div p.diffusion_length

\* _update_additives: the accelerator field after the update and the clip
UpdateAccelerator(m, acc, p, dt) ==
    Array([y \in Rows |-> Array([x \in Cols |->
        LET recess == IF y = CopperTop(m, x) THEN _calculate_recess_depth(m, p, x, y) ELSE 0
        IN Max(0, Min(AcceleratorMax, acc[y][x] + AcceleratorGain(p, dt, recess)))])])

\* The suppressor field as a decay of the whole array would leave it
UpdateSuppressorAllCells(m, sup, p) ==
    Array([y \in Rows |-> Array([x \in Cols |->
        Max(SuppressorMin, Min(SuppressorOne, (sup[y][x] * SuppressorDecay) \div 100))])])

\* _update_additives: the suppressor field after the update and the clip
UpdateSuppressor(m, sup, p) ==
    Array([y \in Rows |-> Array([x \in Cols |->
        LET recess == IF y = CopperTop(m, x) THEN _calculate_recess_depth(m, p, x, y) ELSE 0
            v == IF recess > 0 THEN (sup[y][x] * SuppressorDecay) \div 100 ELSE sup[y][x]
        IN Max(SuppressorMin, Min(SuppressorOne, v))])])

\* int(local_rate * dt / dy), local_rate = base_rate * (1 + enhancement *
\* depth_factor) * (accelerator / suppressor)
GrowthPixels(p, dt, depth_factor, a, s) ==
    (p.plating_rate_base * dt * (FeatureDepth + p.plating_enhancement * depth_factor) * a)
        \div (2 * FeatureDepth * 5 * s * dy(p))

\* The copper one column would receive without the test for VACUUM
PlateColumnOverwrite(m, x, surface, growth_pixels) ==
    Array([y \in Rows |->
        IF y > surface /\ y <= surface + growth_pixels
        THEN [m[y] EXCEPT ![x] = COPPER]
        ELSE m[y]])

\* The copper one column receives (lines 365-370)
PlateColumn(m, x, surface, growth_pixels) ==
    Array([y \in Rows |->
        IF y > surface /\ y <= surface + growth_pixels /\ m[y][x] = VACUUM
        THEN [m[y] EXCEPT ![x] = COPPER]
        ELSE m[y]])

\* for x in range(resolution): each column on the grid the previous left
RECURSIVE PlateColumns(_, _, _, _, _, _)
PlateColumns(m, x, acc, sup, p, dt) ==
    IF x >= Resolution THEN m
    ELSE LET surface == CopperTop(m, x)
         IN IF surface < 0
            THEN PlateColumns(m, x + 1, acc, sup, p, dt)
            ELSE PlateColumns(
                   PlateColumn(m, x, surface,
                       GrowthPixels(p, dt, _calculate_depth_factor(m, p, x, surface),
                                    acc[surface][x], sup[surface][x])),
                   x + 1, acc, sup, p, dt)

\* Electroplater.plate_step: the additives are updated first, then the copper
\* is deposited with the updated fields
plate_step(m, acc, sup, p, dt) ==
    LET a == UpdateAccelerator(m, acc, p, dt)
        s == UpdateSuppressor(m, sup, p)
    IN [materials |-> PlateColumns(m, 0, a, s, p, dt), accelerator |-> a, suppressor |-> s]

\* ------------------------------------------------------------- CMPPolisher
\* range(1, 50) in _calculate_width_factor, and width / 50.0
WidthScan == 50

\* Consecutive COPPER cells of row y from column x in direction d (-1, +1),
\* the scan stopping at the grid edge, at another material or after 49 cells
RECURSIVE CopperRun(_, _, _, _, _)
CopperRun(m, x, y, d, k) ==
    IF k >= WidthScan \/ x + d * k < 0 \/ x + d * k >= Resolution THEN k - 1
    ELSE IF m[y][x + d * k] = COPPER THEN CopperRun(m, x, y, d, k + 1)
    ELSE k - 1

\* _calculate_width_factor: the numerator of min(width / 50.0, 1.0)
_calculate_width_factor(m, x, y) ==
    Min(1 + CopperRun(m, x, y, -1, 1) + CopperRun(m, x, y, 1, 1), WidthScan)

\* The selectivity of the surface material, in thousandths (lines 445-455)
Selectivity(m, p, x, surface) ==
    LET material == m[surface][x]
    IN IF material = COPPER
       THEN (p.cmp_selectivity_cu
               * (100 * WidthScan + p.dishing_factor * _calculate_width_factor(m, x, surface)))
            \div (10 * WidthScan)
       ELSE IF material = BARRIER THEN 10 * p.cmp_selectivity_barrier
       ELSE IF material = OXIDE THEN 10 * p.cmp_selectivity_oxide
       ELSE 500

\* pressure = max(heights - mean, 0) / (max(pressure) + 1e-9), heights in nm:
\* the numerators max(h * R - sum, 0) and the denominator max + R * 1 nm
RECURSIVE SumTo(_, _)
SumTo(f, n) == IF n < 0 THEN 0 ELSE f[n] + SumTo(f, n - 1)

PressureNum(m, p) ==
    LET h == get_surface_height(m)
        total == SumTo(h, Resolution - 1) * dy(p)
    IN Array([x \in Cols |-> Max(h[x] * dy(p) * Resolution - total, 0)])

PressureDen(m, p) ==
    LET pn == PressureNum(m, p) IN SetMax({pn[x] : x \in Cols}) + Resolution

\* int(removal_rate * dt / dy), removal_rate = cmp_removal_rate * selectivity
\* * (1 + pressure[x])
RemovalPixels(p, dt, selectivity, pnum, pden) ==
    (((p.cmp_removal_rate * dt * selectivity) \div 1000) * (pden + pnum))
        \div (1000 * pden * dy(p))

\* The column as it would be were the surface material built up by the
\* removal instead of taken off
PolishColumnRaised(m, x, surface, removal_pixels) ==
    Array([y \in Rows |->
        IF y > surface /\ y <= surface + removal_pixels
        THEN [m[y] EXCEPT ![x] = m[surface][x]]
        ELSE m[y]])

\* The cells one column would lose were a removed cell marked with -1
PolishColumnMarked(m, x, surface, removal_pixels) ==
    Array([y \in Rows |->
        IF y <= surface /\ y > surface - removal_pixels
        THEN [m[y] EXCEPT ![x] = -1]
        ELSE m[y]])

\* The cells one column loses (lines 462-464), whatever their material
PolishColumn(m, x, surface, removal_pixels) ==
    Array([y \in Rows |->
        IF y <= surface /\ y > surface - removal_pixels
        THEN [m[y] EXCEPT ![x] = VACUUM]
        ELSE m[y]])

\* for x in range(resolution): the pressure is that of the grid before the
\* step, the width factor reads the grid the previous columns left
RECURSIVE PolishColumns(_, _, _, _, _, _)
PolishColumns(m, x, pnum, pden, p, dt) ==
    IF x >= Resolution THEN m
    ELSE LET surface == TopRow(m, x)
         IN IF surface < 0
            THEN PolishColumns(m, x + 1, pnum, pden, p, dt)
            ELSE PolishColumns(
                   PolishColumn(m, x, surface,
                       RemovalPixels(p, dt, Selectivity(m, p, x, surface), pnum[x], pden)),
                   x + 1, pnum, pden, p, dt)

\* CMPPolisher.polish_step
polish_step(m, p, dt) == PolishColumns(m, 0, PressureNum(m, p), PressureDen(m, p), p, dt)

\* max minus min of the surface heights, in nm
Variation(m, p) ==
    LET h == get_surface_height(m)
    IN (SetMax({h[x] : x \in Cols}) - SetMin({h[x] : x \in Cols})) * dy(p)

\* is_planar as it would be on the surface indices, without the factor dy
is_planar_rows(m, p, tolerance) == Variation(m, p) \div dy(p) < tolerance

\* CMPPolisher.is_planar
is_planar(m, p, tolerance) == Variation(m, p) < tolerance

\* np.std(surface) < limit, as the variance against the squared limit
SurfaceFlat(m, p, limit) ==
    LET h == get_surface_height(m)
        s1 == SumTo(h, Resolution - 1) * dy(p)
        s2 == SumTo(Array([x \in Cols |-> h[x] * h[x]]), Resolution - 1) * dy(p) * dy(p)
    IN Resolution * s2 - s1 * s1 < limit * limit * Resolution * Resolution

\* --------------------------------------------------------- DamasceneProcess
\* The steps list of run_full_process, by index
StepNames ==
    << "Initial State", "Via Etch", "Trench Etch", "Barrier Deposition",
       "Seed Layer Deposition", "Copper Electroplating", "CMP Polish",
       "Final Structure" >>
\* The first line each step function prints
StartMessages ==
    << "", "Etching via to bottom metal...", "Etching trench...",
       "Depositing barrier layer...", "Depositing Cu seed layer...",
       "Electroplating copper (bottom-up fill)...", "Performing CMP...", "" >>
\* plt.subplots(2, 4): the axes _run_static_process draws on
AxesCount == 8

\* dt and max_time of _etch_via, _etch_trench, _electroplate_copper and
\* _perform_cmp, in ms
ViaDt == 100
ViaMaxTime == 20000
TrenchDt == 100
TrenchMaxTime == 10000
PlateDt == 10
PlateMaxTime == 30000
CmpDt == 50
CmpMaxTime == 20000
\* is_planar(tolerance=5e-9) and np.std(surface) < 10e-9, in nm
CmpTolerance == 5
PlateFlatness == 10

VARIABLES
    params,        \* the ProcessParameters record of the run
    materials,     \* wafer.materials[y][x]
    accelerator,   \* plater.accelerator[y][x], tenths
    suppressor,    \* plater.suppressor[y][x], thousandths
    time,          \* wafer.time, ms
    current_step,  \* wafer.current_step
    pc,            \* where run_full_process stands: begin, run, show, done; ops
    idx,           \* the index into steps
    total_time,    \* the local total_time of the running stage, ms
    iterations,    \* loop iterations the running stage has executed
    console,       \* what was printed, in order
    titles,        \* the titles drawn on the axes, in order
    error,         \* an exception was raised
    snapshot,      \* the grid when the running stage began
    last,          \* the last tool call: its arguments, the grid before, its result
    nops,          \* tool calls made in the free-operation specification
    analyzer,      \* the OxideGrowthAnalyzer: its params and coeffs
    files,         \* the Markdown files on disk: path -> lines
    run            \* a run of one of the scripts: arguments, output, exit code

\* The state of the other programs of the repository
elsewhere == << analyzer, files, run >>

vars == << params, materials, accelerator, suppressor, time, current_step, pc, idx,
           total_time, iterations, console, titles, error, snapshot, last, nops,
           analyzer, files, run >>

\* No analyzer constructed, no file in reach, no script started

NoCall ==
    [op |-> "none", before |-> << >>, start_x |-> 0, end_x |-> 0, etch_pixels |-> 0,
     lateral_etch |-> 0, current_depth |-> 0, surface |-> << >>, finished |-> FALSE,
     target_depth |-> 0, material |-> VACUUM, target_pixels |-> 0, step_coverage |-> 0]

EtchCall(m, r, target_depth) ==
    [NoCall EXCEPT !.op = "etch", !.before = m, !.start_x = r.start_x, !.end_x = r.end_x,
                   !.etch_pixels = r.etch_pixels, !.lateral_etch = r.lateral_etch,
                   !.current_depth = r.current_depth, !.surface = r.surface,
                   !.finished = r.finished, !.target_depth = target_depth,
                   !.material = r.target_material]

DepositCall(m, p, material, thickness, step_coverage) ==
    [NoCall EXCEPT !.op = "deposit", !.before = m, !.material = material,
                   !.target_pixels = ToRows(p, thickness), !.step_coverage = step_coverage]

PlateCall(m) == [NoCall EXCEPT !.op = "plate", !.before = m]

PolishCall(m) == [NoCall EXCEPT !.op = "polish", !.before = m]

\* The parameter records the runs are made with: the scaled default; a slow
\* etch (one row per timestep, as far from the target per call as the default
\* 9 nm per call is from its 300 nm trench); a wafer without features; a
\* trench without a via under a softer oxide polish; a stack without etch
\* stop under a perfectly conformal barrier and a line-of-sight seed
SlowEtch ==
    [ProcessParameters EXCEPT !.etch_rate_oxide = 30, !.nitride_etch_stop = 3,
                              !.top_oxide = 15]
NoFeature == [ProcessParameters EXCEPT !.via_width = 0, !.trench_width = 0]
SoftOxide == [ProcessParameters EXCEPT !.via_width = 0, !.cmp_selectivity_oxide = 50]
NoStop ==
    [ProcessParameters EXCEPT !.nitride_etch_stop = 0, !.barrier_step_coverage = 100,
                              !.seed_step_coverage = 0]
Configs == {ProcessParameters, SlowEtch, NoFeature, SoftOxide, NoStop}

\* DamasceneProcess.__init__ and the head of run_full_process
InitWith(p) ==
    /\ params = p
    /\ materials = _initialize_layers(p)
    /\ accelerator = [y \in Rows |-> [x \in Cols |-> 0]]
    /\ suppressor = [y \in Rows |-> [x \in Cols |-> SuppressorOne]]
    /\ time = 0
    /\ current_step = "Initial"
    /\ idx = 0
    /\ total_time = 0
    /\ iterations = 0
    /\ titles = << >>
    /\ error = FALSE
    /\ snapshot = _initialize_layers(p)
    /\ last = NoCall
    /\ nops = 0
    /\ analyzer = [constructed |-> FALSE]
    /\ files = << >>
    /\ run = [script |-> "none"]

Init ==
    /\ \E p \in Configs : InitWith(p)
    /\ pc = "begin"
    /\ console = << "Starting Dual Damascene Process Simulation" >>

\* _run_static_process, the head of one loop round: print, set current_step,
\* and call the step function if there is one
BeginStep ==
    /\ pc = "begin"
    /\ idx < Len(StepNames)
    /\ current_step' = StepNames[idx + 1]
    /\ console' = IF idx = 0 \/ idx = 7
                  THEN Append(console, StepNames[idx + 1])
                  ELSE console \o << StepNames[idx + 1], StartMessages[idx + 1] >>
    /\ pc' = IF idx = 0 \/ idx = 7 THEN "show" ELSE "run"
    /\ total_time' = 0
    /\ iterations' = 0
    /\ snapshot' = materials
    /\ UNCHANGED << elsewhere, params, materials, accelerator, suppressor, time, idx, titles, error,
                    last, nops >>

\* The loop round on a figure of plt.subplots(1, 7): one axis short
VisualizeFewAxes ==
    /\ pc = "show"
    /\ IF idx < AxesCount - 1
       THEN /\ titles' = Append(titles, current_step)
            /\ error' = error
            /\ idx' = idx + 1
            /\ pc' = IF idx + 1 < Len(StepNames) THEN "begin" ELSE "done"
       ELSE /\ error' = TRUE
            /\ pc' = "done"
            /\ UNCHANGED << titles, idx >>
    /\ UNCHANGED << elsewhere, params, materials, accelerator, suppressor, time, current_step,
                    total_time, iterations, console, snapshot, last, nops >>

\* wafer.visualize(axes[idx], title) and the end of the loop round
Visualize ==
    /\ pc = "show"
    /\ IF idx < AxesCount
       THEN /\ titles' = Append(titles, current_step)
            /\ error' = error
            /\ idx' = idx + 1
            /\ pc' = IF idx + 1 < Len(StepNames) THEN "begin" ELSE "done"
       ELSE /\ error' = TRUE
            /\ pc' = "done"
            /\ UNCHANGED << titles, idx >>
    /\ UNCHANGED << elsewhere, params, materials, accelerator, suppressor, time, current_step,
                    total_time, iterations, console, snapshot, last, nops >>

\* The time as total_time += dt / 2 would advance it
AdvanceHalf(t, dt) == t + dt \div 2

\* total_time += dt
Advance(t, dt) == t + dt

\* total_time is a float: after n additions of dt it differs from n * dt by
\* a rounding error, and the error decides total_time < max_time when
\* n * dt = max_time.  Of the four loops, 0.1 added 100 times is
\* 9.99999999999998, below 10.0; 0.1 added 200 times, 0.01 added 3000 times
\* and 0.05 added 400 times end above their max_time.
RoundsBelow(t, dt) == dt = TrenchDt /\ t = TrenchMaxTime

\* while total_time < max_time
TimeLeft(t, dt, max_time) == t < max_time \/ (t = max_time /\ RoundsBelow(t, dt))

\* One round of the while loop of _etch_via, with the loop test that follows
ViaEtchStep ==
    /\ pc = "run" /\ idx = 1
    /\ TimeLeft(total_time, ViaDt, ViaMaxTime)
    /\ LET r == etch_feature(materials, params, params.wafer_width \div 2, params.via_width,
                             params.bottom_oxide + params.nitride_etch_stop, ViaDt, OXIDE, {})
           t == Advance(total_time, ViaDt)
       IN /\ materials' = r.materials
          /\ last' = EtchCall(materials, r, params.bottom_oxide + params.nitride_etch_stop)
          /\ total_time' = t
          /\ time' = t
          /\ console' = IF r.finished THEN Append(console, "Via etch completed") ELSE console
          /\ pc' = IF r.finished \/ ~TimeLeft(t, ViaDt, ViaMaxTime) THEN "show" ELSE "run"
    /\ iterations' = iterations + 1
    /\ UNCHANGED << elsewhere, params, accelerator, suppressor, current_step, idx, titles, error,
                    snapshot, nops >>

\* One round of the while loop of _etch_trench
TrenchEtchStep ==
    /\ pc = "run" /\ idx = 2
    /\ TimeLeft(total_time, TrenchDt, TrenchMaxTime)
    /\ LET r == etch_feature(materials, params, params.wafer_width \div 2, params.trench_width,
                             params.trench_depth, TrenchDt, OXIDE, {})
           t == Advance(total_time, TrenchDt)
       IN /\ materials' = r.materials
          /\ last' = EtchCall(materials, r, params.trench_depth)
          /\ total_time' = t
          /\ time' = time + t
          /\ console' = IF r.finished THEN Append(console, "Trench etch completed") ELSE console
          /\ pc' = IF r.finished \/ ~TimeLeft(t, TrenchDt, TrenchMaxTime) THEN "show" ELSE "run"
    /\ iterations' = iterations + 1
    /\ UNCHANGED << elsewhere, params, accelerator, suppressor, current_step, idx, titles, error,
                    snapshot, nops >>

\* _deposit_barrier
DepositBarrier ==
    /\ pc = "run" /\ idx = 3
    /\ materials' = deposit_conformal(materials, params, BARRIER, params.barrier_thickness,
                                      params.barrier_step_coverage)
    /\ last' = DepositCall(materials, params, BARRIER, params.barrier_thickness,
                           params.barrier_step_coverage)
    /\ console' = Append(console, "Barrier deposition complete")
    /\ pc' = "show"
    /\ UNCHANGED << elsewhere, params, accelerator, suppressor, time, current_step, idx, total_time,
                    iterations, titles, error, snapshot, nops >>

\* _deposit_seed
DepositSeed ==
    /\ pc = "run" /\ idx = 4
    /\ materials' = deposit_conformal(materials, params, COPPER_SEED, params.seed_thickness,
                                      params.seed_step_coverage)
    /\ last' = DepositCall(materials, params, COPPER_SEED, params.seed_thickness,
                           params.seed_step_coverage)
    /\ console' = Append(console, "Seed layer deposition complete")
    /\ pc' = "show"
    /\ UNCHANGED << elsewhere, params, accelerator, suppressor, time, current_step, idx, total_time,
                    iterations, titles, error, snapshot, nops >>

\* One round of the while loop of _electroplate_copper
PlateStep ==
    /\ pc = "run" /\ idx = 5
    /\ TimeLeft(total_time, PlateDt, PlateMaxTime)
    /\ LET r == plate_step(materials, accelerator, suppressor, params, PlateDt)
           t == Advance(total_time, PlateDt)
           stop == SurfaceFlat(r.materials, params, PlateFlatness)
                       \/ ~TimeLeft(t, PlateDt, PlateMaxTime)
       IN /\ materials' = r.materials
          /\ accelerator' = r.accelerator
          /\ suppressor' = r.suppressor
          /\ total_time' = t
          /\ time' = time + PlateDt
          /\ console' = IF stop THEN Append(console, "Electroplating completed") ELSE console
          /\ pc' = IF stop THEN "show" ELSE "run"
    /\ last' = PlateCall(materials)
    /\ iterations' = iterations + 1
    /\ UNCHANGED << elsewhere, params, current_step, idx, titles, error, snapshot, nops >>

\* One round of the while loop of _perform_cmp, and the test after the loop
PolishStep ==
    /\ pc = "run" /\ idx = 6
    /\ TimeLeft(total_time, CmpDt, CmpMaxTime)
    /\ LET m == polish_step(materials, params, CmpDt)
           t == Advance(total_time, CmpDt)
           planar == is_planar(m, params, CmpTolerance)
           said == IF planar THEN Append(console, "CMP completed - Surface planar") ELSE console
           stop == planar \/ ~TimeLeft(t, CmpDt, CmpMaxTime)
       IN /\ materials' = m
          /\ total_time' = t
          /\ time' = time + CmpDt
          /\ console' = IF stop /\ ~TimeLeft(t, CmpDt, CmpMaxTime)
                        THEN Append(said, "CMP stopped at max time")
                        ELSE said
          /\ pc' = IF stop THEN "show" ELSE "run"
    /\ last' = PolishCall(materials)
    /\ iterations' = iterations + 1
    /\ UNCHANGED << elsewhere, params, accelerator, suppressor, current_step, idx, titles, error,
                    snapshot, nops >>

Next ==
    \/ BeginStep
    \/ ViaEtchStep
    \/ TrenchEtchStep
    \/ DepositBarrier
    \/ DepositSeed
    \/ PlateStep
    \/ PolishStep
    \/ Visualize

Spec == Init /\ [][Next]_vars

\* ------------------------------------------------ the etcher called directly
\* PlasmaEtcher is a public class: etch_feature called on the wafer with
\* arguments of the caller's choice.  The wafers: the scaled default; a thin
\* etch stop under a less anisotropic etch; a stack without etch stop.
ThinStop ==
    [ProcessParameters EXCEPT !.nitride_etch_stop = 3, !.top_oxide = 9,
                              !.etch_anisotropy = 50]
OpsConfigs == {ProcessParameters, ThinStop, [NoStop EXCEPT !.top_oxide = 9]}

\* The calls: a via-sized window at the centre and one at the left edge of
\* the wafer, one timestep of the process; a long oxide etch of a wider
\* window; a NITRIDE etch and a SILICON etch of two rows
EtchCalls(p) ==
    { [center_x |-> p.wafer_width \div 2, width |-> 8, target_depth |-> 6, dt |-> 100,
       target_material |-> OXIDE],
      [center_x |-> 4, width |-> 8, target_depth |-> 12, dt |-> 100,
       target_material |-> OXIDE],
      [center_x |-> p.wafer_width \div 2, width |-> 12, target_depth |-> 21, dt |-> 1300,
       target_material |-> OXIDE],
      [center_x |-> p.wafer_width \div 2, width |-> 8, target_depth |-> 3, dt |-> 1300,
       target_material |-> NITRIDE],
      [center_x |-> p.wafer_width \div 2, width |-> 8, target_depth |-> 3, dt |-> 1300,
       target_material |-> SILICON] }

OpsInit ==
    /\ \E p \in OpsConfigs : InitWith(p)
    /\ pc = "ops"
    /\ console = << >>

\* One call of etch_feature: every outcome of its random draws
EtchOp ==
    /\ pc = "ops"
    /\ nops < MaxOps
    /\ \E a \in EtchCalls(params) :
         \E survive \in SUBSET NitrideCells(materials, params, a.center_x, a.width, a.dt,
                                             a.target_material) :
            LET r == etch_feature(materials, params, a.center_x, a.width, a.target_depth,
                                  a.dt, a.target_material, survive)
            IN /\ materials' = r.materials
               /\ last' = EtchCall(materials, r, a.target_depth)
    /\ nops' = nops + 1
    /\ UNCHANGED << elsewhere, params, accelerator, suppressor, time, current_step, pc, idx,
                    total_time, iterations, console, titles, error, snapshot >>

OpsNext == EtchOp

OpsSpec == OpsInit /\ [][OpsNext]_vars

\* --------------------------------------------- the four tools called directly
\* PlasmaEtcher, PVDDepositor, Electroplater and CMPPolisher are public
\* classes over one DamasceneWafer: their operations called in any order,
\* with arguments of the caller's choice, on a thin stack with and without
\* etch stop.
ToolConfigs ==
    {ThinStop, [NoStop EXCEPT !.top_oxide = 9, !.etch_anisotropy = 50]}

\* The cell indices [y, x] the downward pass of one column uses (lines
\* 231-236): y = surface - dy for dy in range(etch_pixels), left at the
\* first y < 0
PassIndicesNoBreak(x, surface, etch_pixels) ==
    {<<surface - d, x>> : d \in 0..(etch_pixels - 1)}

PassIndices(x, surface, etch_pixels) ==
    {<<surface - d, x>> : d \in {dd \in 0..(etch_pixels - 1) : surface - dd >= 0}}

\* The cell indices the lateral etch of column x uses (lines 247-259): the
\* columns x - lateral_etch and x + lateral_etch under their guards, the
\* rows surface - dy for dy in range(lateral_etch) under y >= 0
LateralIndices(x, surface, lateral_etch) ==
    LET rows == {surface - d : d \in {dd \in 0..(lateral_etch - 1) : surface - dd >= 0}}
    IN IF lateral_etch > 0 /\ surface >= lateral_etch
       THEN (IF x - lateral_etch >= 0 THEN rows \X {x - lateral_etch} ELSE {})
            \cup (IF x + lateral_etch < Resolution THEN rows \X {x + lateral_etch} ELSE {})
       ELSE {}

\* Every cell index a call of etch_feature uses: the column slice [:, x] of
\* each x in range(start_x, end_x), the pass and the lateral etch of the
\* columns that have a surface.  r is the result of the call.
EtchIndices(r) ==
    UNION {
        (Rows \X {x})
        \cup (IF x \in Cols /\ r.surface[x] >= 0
              THEN PassIndices(x, r.surface[x], r.etch_pixels)
                   \cup LateralIndices(x, r.surface[x], r.lateral_etch)
              ELSE {})
        : x \in r.start_x..(r.end_x - 1)}

\* numpy raises IndexError for an index >= the axis length or < -length; an
\* index in -length..-1 wraps to the other end of the axis without error
RaisesIndexError(S) ==
    \E i \in S : \/ i[1] >= Resolution \/ i[1] < -Resolution
                 \/ i[2] >= Resolution \/ i[2] < -Resolution

\* The etch calls: a SILICON etch of six rows in a window over the left
\* edge; an OXIDE etch of one timestep of the process in a window over the
\* right edge; windows beyond the left and beyond the right edge; a long
\* SILICON etch of the leftmost column, which runs past the bottom of the grid
ToolEtchCalls(p) ==
    { [center_x |-> 0, width |-> 16, target_depth |-> 18, dt |-> 4000,
       target_material |-> SILICON],
      [center_x |-> p.wafer_width, width |-> 16, target_depth |-> 6, dt |-> 100,
       target_material |-> OXIDE],
      [center_x |-> -40, width |-> 8, target_depth |-> 6, dt |-> 100,
       target_material |-> OXIDE],
      [center_x |-> p.wafer_width + 40, width |-> 8, target_depth |-> 6, dt |-> 100,
       target_material |-> OXIDE],
      [center_x |-> 0, width |-> 8, target_depth |-> 45, dt |-> 10000,
       target_material |-> SILICON] }

\* The depositions: the barrier of the process, and a seed of three rows
ToolDepositCalls(p) ==
    { [material |-> BARRIER, thickness |-> p.barrier_thickness,
       step_coverage |-> p.barrier_step_coverage],
      [material |-> COPPER_SEED, thickness |-> 9,
       step_coverage |-> p.seed_step_coverage] }

ToolInit ==
    /\ \E p \in ToolConfigs : InitWith(p)
    /\ pc = "tools"
    /\ console = << >>

\* One call of etch_feature: every outcome of its random draws
ToolEtch ==
    /\ pc = "tools"
    /\ nops < MaxOps
    /\ \E a \in ToolEtchCalls(params) :
         \E survive \in SUBSET NitrideCells(materials, params, a.center_x, a.width, a.dt,
                                             a.target_material) :
            LET r == etch_feature(materials, params, a.center_x, a.width, a.target_depth,
                                  a.dt, a.target_material, survive)
                indices == EtchIndices(r)
            IN /\ materials' = r.materials
               /\ error' = (error \/ RaisesIndexError(indices))
               /\ last' = EtchCall(materials, r, a.target_depth)
                             @@ [center_idx |-> ToCols(params, a.center_x),
                                 width_idx |-> ToCols(params, a.width),
                                 indices |-> indices]
    /\ nops' = nops + 1
    /\ UNCHANGED << elsewhere, params, accelerator, suppressor, time, current_step, pc, idx,
                    total_time, iterations, console, titles, snapshot >>

\* One call of deposit_conformal
ToolDeposit ==
    /\ pc = "tools"
    /\ nops < MaxOps
    /\ \E a \in ToolDepositCalls(params) :
          /\ materials' = deposit_conformal(materials, params, a.material, a.thickness,
                                            a.step_coverage)
          /\ last' = DepositCall(materials, params, a.material, a.thickness, a.step_coverage)
    /\ nops' = nops + 1
    /\ UNCHANGED << elsewhere, params, accelerator, suppressor, time, current_step, pc, idx,
                    total_time, iterations, console, titles, error, snapshot >>

\* One call of plate_step with the timestep of the process
ToolPlate ==
    /\ pc = "tools"
    /\ nops < MaxOps
    /\ LET r == plate_step(materials, accelerator, suppressor, params, PlateDt)
       IN /\ materials' = r.materials
          /\ accelerator' = r.accelerator
          /\ suppressor' = r.suppressor
          /\ last' = PlateCall(materials)
                        @@ [accelerator |-> accelerator, suppressor |-> suppressor,
                            dt |-> PlateDt]
    /\ nops' = nops + 1
    /\ UNCHANGED << elsewhere, params, time, current_step, pc, idx, total_time, iterations,
                    console, titles, error, snapshot >>

\* One call of polish_step with the timestep of the process
ToolPolish ==
    /\ pc = "tools"
    /\ nops < MaxOps
    /\ materials' = polish_step(materials, params, CmpDt)
    /\ last' = PolishCall(materials) @@ [dt |-> CmpDt]
    /\ nops' = nops + 1
    /\ UNCHANGED << elsewhere, params, accelerator, suppressor, time, current_step, pc, idx,
                    total_time, iterations, console, titles, error, snapshot >>

ToolNext == ToolEtch \/ ToolDeposit \/ ToolPlate \/ ToolPolish

ToolSpec == ToolInit /\ [][ToolNext]_vars

\* The interpreter runs the single thread on: a step that can be taken is
\* taken.  This is WF_vars(Next), []<>~ENABLED <<Next>>_vars \/
\* []<><<Next>>_vars, with the enabling condition of Next written out: in
\* every state but those of pc = "done" one of the actions can step (pc is
\* "begin" only with a step left, "run" only with time left in a loop or a
\* deposition to make, and Visualize steps from every "show").
FairSpec == Spec /\ ([]<>(pc = "done") \/ []<><<Next>>_vars)

\* ======================================================= the oxide analyzer
\* OxideGrowthAnalyzer (src/simulation-examples/python/oxide_growth_model_3D.py).
\* Units.  Lengths in 0.1 nm, times in min, B in 0.01 nm^2/min, the pressure
\* in atm, the orientation factor in hundredths.  A float is held as an exact
\* fraction num / den of integers; den = 0 holds what a division by zero
\* leaves in a numpy float: inf (num # 0) or nan (num = 0).

\* No DamasceneProcess is constructed
NoProcess ==
    /\ params = << >>
    /\ materials = << >>
    /\ accelerator = << >>
    /\ suppressor = << >>
    /\ time = 0
    /\ current_step = ""
    /\ idx = 0
    /\ total_time = 0
    /\ iterations = 0
    /\ titles = << >>
    /\ snapshot = << >>

Frac(n, d) == [num |-> n, den |-> d]

RECURSIVE Gcd(_, _)
Gcd(a, b) == IF b = 0 THEN a ELSE Gcd(b, a % b)

\* n / d of two numpy floats, d >= 0: a division by zero is a RuntimeWarning
\* and leaves inf or nan
Divide(n, d) ==
    IF d = 0 THEN Frac(IF n > 0 THEN 1 ELSE IF n < 0 THEN -1 ELSE 0, 0) ELSE Frac(n, d)

\* t + q
Plus(t, q) == IF q.den = 0 THEN q ELSE Frac(t * q.den + q.num, q.den)

\* b * q, the common factor of b and q.den divided out; 0 * inf is nan
Times(b, q) ==
    IF q.den = 0
    THEN IF b = 0 THEN Frac(0, 0) ELSE Frac(IF b < 0 THEN -q.num ELSE q.num, 0)
    ELSE LET g == Gcd(IF b < 0 THEN -b ELSE b, q.den)
         IN Frac((b \div g) * q.num, q.den \div g)

\* The largest r in lo..hi with r * r <= n
RECURSIVE IsqrtIn(_, _, _)
IsqrtIn(n, lo, hi) ==
    IF lo = hi THEN lo
    ELSE LET mid == (lo + hi + 1) \div 2
         IN IF mid * mid <= n THEN IsqrtIn(n, mid, hi) ELSE IsqrtIn(n, lo, mid - 1)

\* np.sqrt(q) of q >= 0 or nan, rounded down to the unit of length
Sqrt(q) == IF q.den = 0 THEN q ELSE Frac(IsqrtIn(q.num \div q.den, 0, 46340), 1)

\* The parameter records __post_init__ accepts without a warning: two
\* temperatures of the typical range, the three ambients and orientations,
\* no oxidant, the default pressure and twice it, no initial oxide, 2 nm and
\* 25 nm of it
OxidationParameters ==
    [temperature : {1350, 1400}, ambient : {"dry", "wet", "steam"}, pressure : {0, 1, 2},
     orientation : {"<100>", "<110>", "<111>"}, initial_oxide : {0, 20, 250}]

\* B_0 * np.exp(-E_A_B * Q / (K_B * T)), nm^2/min rounded to the unit
ArrheniusB(ambient, T) ==
    CASE ambient = "dry" /\ T = 1350 -> 1976
      [] ambient = "dry" /\ T = 1400 -> 2883
      [] ambient = "wet" /\ T = 1350 -> 472841
      [] ambient = "wet" /\ T = 1400 -> 600774
      [] ambient = "steam" /\ T = 1350 -> 612489
      [] ambient = "steam" /\ T = 1400 -> 778204

\* A_0 * np.exp(-E_A_A * Q / (K_B * T)), rounded to 0.1 nm
ArrheniusA(ambient, T) ==
    CASE ambient = "dry" /\ T = 1350 -> 2
      [] ambient = "dry" /\ T = 1400 -> 4
      [] ambient = "wet" /\ T = 1350 -> 1
      [] ambient = "wet" /\ T = 1400 -> 2
      [] ambient = "steam" /\ T = 1350 -> 1
      [] ambient = "steam" /\ T = 1400 -> 3

_calculate_deal_grove_coefficients(p) ==
    LET orientation_factor ==
            IF p.orientation = "<110>" THEN 168
            ELSE IF p.orientation = "<111>" THEN 120 ELSE 100
        A == ArrheniusA(p.ambient, p.temperature) * p.pressure
        B == ArrheniusB(p.ambient, p.temperature) * p.pressure * orientation_factor
        x_i == p.initial_oxide
    IN [A |-> A, B |-> B,
        tau |-> IF x_i > 0 THEN Divide(x_i * x_i + A * x_i, B) ELSE Frac(0, 1)]

\* oxide_thickness(time): the positive root of x^2 + A x = B (t + tau).
\* 'nan < 0' is False and max(0.0, nan) is 0.0.
oxide_thickness(coeffs, t) ==
    LET discriminant == Plus(coeffs.A * coeffs.A, Times(4 * coeffs.B, Plus(t, coeffs.tau)))
        root == Sqrt(discriminant)
        thickness == IF root.den = 0 THEN root
                     ELSE Frac(root.num - coeffs.A * root.den, 2 * root.den)
    IN IF discriminant.num < 0
       THEN Frac(0, 1)
       ELSE IF thickness.num > 0 THEN thickness ELSE Frac(0, 1)

\* OxideGrowthAnalyzer(parameters)
OxideInit ==
    /\ NoProcess
    /\ \E p \in OxidationParameters :
          analyzer = [constructed |-> TRUE, params |-> p,
                      coeffs |-> _calculate_deal_grove_coefficients(p)]
    /\ files = << >>
    /\ run = [script |-> "none"]
    /\ pc = "oxide"
    /\ console = << >>
    /\ error = FALSE
    /\ last = NoCall
    /\ nops = 0

\* One call of oxide_thickness, before the oxidation, at its start and a
\* minute into it
OxideThickness ==
    /\ pc = "oxide"
    /\ nops < MaxOps
    /\ \E t \in {-1, 0, 1} :
          last' = [op |-> "oxide_thickness", time |-> t,
                   thickness |-> oxide_thickness(analyzer.coeffs, t)]
    /\ nops' = nops + 1
    /\ UNCHANGED << elsewhere, params, materials, accelerator, suppressor, time,
                    current_step, pc, idx, total_time, iterations, console, titles,
                    error, snapshot >>

OxideNext == OxideThickness

OxideSpec == OxideInit /\ [][OxideNext]_vars

\* ========================================================= generate_toc.py
\* A Markdown file is its lines and whether its text ends with a newline: the
\* text is the lines joined by "\n" and that newline, content.splitlines()
\* is the lines.  A line is one of
\*   heading  "#" * level, a space and the text (a sequence of characters)
\*   fence    white space, level characters of it, and three backquotes
\*   item     "  " * level, "- [", the text, "](#", the anchor, ")"
\*   comment  "<!-- No headings found for TOC -->"
\*   text     a line of prose
\*   blank    an empty line
\*   links    a line of prose with links (check_links.py)
Line(kind, level, text, anchor) ==
    [kind |-> kind, level |-> level, text |-> text, anchor |-> anchor]
PlainLine(kind) == Line(kind, 0, << >>, << >>)
HeadingLine(level, text) == Line("heading", level, text, << >>)

TocTitle ==
    << "T", "a", "b", "l", "e", " ", "o", "f", " ", "C", "o", "n", "t", "e", "n", "t", "s" >>

\* The characters of the texts: \w is the letters, the digits and "_"
Digits == << "0", "1", "2", "3", "4", "5", "6", "7", "8", "9" >>
WordChars ==
    {"a", "b", "c", "e", "f", "i", "l", "n", "o", "s", "t", "A", "B", "C", "T", "_"}
        \cup {Digits[i] : i \in 1..10}
Backquote == "backquote"

\* str.lower() of one character
Lower(c) ==
    CASE c = "A" -> "a"
      [] c = "B" -> "b"
      [] c = "C" -> "c"
      [] c = "T" -> "t"
      [] OTHER -> c

LowerText(text) == [i \in 1..Len(text) |-> Lower(text[i])]

\* FENCE_RE, HEADING_RE and TOC_HEADING_RE matched on a line
MatchesFence(line) == line.kind = "fence"
MatchesHeading(line) == line.kind = "heading"
MatchesTocHeading(line) ==
    /\ line.kind = "heading"
    /\ line.level \in 2..6
    /\ LowerText(line.text) = LowerText(TocTitle)

\* The least index from i on where character c stands, 0 if nowhere
RECURSIVE IndexFrom(_, _, _)
IndexFrom(text, c, i) ==
    IF i > Len(text) THEN 0 ELSE IF text[i] = c THEN i ELSE IndexFrom(text, c, i + 1)

\* strip_inline_code: each pair of backquotes gives way to what it encloses
RECURSIVE strip_inline_code(_)
strip_inline_code(text) ==
    LET i == IndexFrom(text, Backquote, 1)
        j == IF i = 0 THEN 0 ELSE IndexFrom(text, Backquote, i + 1)
    IN IF j = 0
       THEN text
       ELSE SubSeq(text, 1, i - 1) \o SubSeq(text, i + 1, j - 1)
                \o strip_inline_code(SubSeq(text, j + 1, Len(text)))

\* " ".join(text.split()): the words of the text, one space between them
RECURSIVE JoinWords(_, _)
JoinWords(text, i) ==
    IF i > Len(text) THEN << >>
    ELSE IF text[i] = " "
         THEN LET rest == JoinWords(text, i + 1)
              IN IF i = 1 \/ rest = << >> \/ text[i - 1] = " " THEN rest ELSE << " " >> \o rest
         ELSE << text[i] >> \o JoinWords(text, i + 1)

\* clean_heading_text.  The texts of the model hold no bracket, no tag and
\* no backslash: strip_links and the two substitutions after it find nothing
\* to replace.
clean_heading_text(text) == JoinWords(strip_inline_code(text), 1)

\* re.sub(r"[\s_]+", "-", slug)
RECURSIVE Hyphenate(_, _)
Hyphenate(text, i) ==
    IF i > Len(text) THEN << >>
    ELSE IF text[i] \in {" ", "_"}
         THEN IF i > 1 /\ text[i - 1] \in {" ", "_"}
              THEN Hyphenate(text, i + 1)
              ELSE << "-" >> \o Hyphenate(text, i + 1)
         ELSE << text[i] >> \o Hyphenate(text, i + 1)

\* slug.strip("-")
RECURSIVE StripHyphens(_)
StripHyphens(text) ==
    IF text = << >> THEN text
    ELSE IF Head(text) = "-" THEN StripHyphens(Tail(text))
    ELSE IF text[Len(text)] = "-" THEN StripHyphens(SubSeq(text, 1, Len(text) - 1))
    ELSE text

\* slugify(text, counts): the anchor, and counts as the call leaves it
slugify(text, counts) ==
    LET Counted(slug, n) ==
            [anchor |-> IF n = 0 THEN slug ELSE slug \o << "-", Digits[n + 1] >>,
             counts |-> [s \in DOMAIN counts \cup {slug} |->
                            IF s = slug THEN n + 1 ELSE counts[s]]]
        Named(slug) == Counted(slug, IF slug \in DOMAIN counts THEN counts[slug] ELSE 0)
        OrSection(stripped) ==
            Named(IF stripped = << >> THEN << "s", "e", "c", "t", "i", "o", "n" >>
                  ELSE stripped)
    IN OrSection(StripHyphens(Hyphenate(
           SelectSeq(LowerText(clean_heading_text(text)),
                     LAMBDA c : c \in WordChars \cup {" ", "-"}), 1)))

\* collect_headings from line i on
RECURSIVE collect_headings(_, _, _, _, _, _)
collect_headings(lines, i, in_fence, slug_counts, min_level, max_level) ==
    IF i > Len(lines) THEN << >>
    ELSE LET line == lines[i]
         IN IF MatchesFence(line)
            THEN collect_headings(lines, i + 1, ~in_fence, slug_counts, min_level, max_level)
            ELSE IF \/ in_fence
                    \/ ~MatchesHeading(line)
                    \/ MatchesTocHeading(line)
                    \/ ~(min_level <= line.level /\ line.level <= max_level)
                    \/ line.text = << >>
                 THEN collect_headings(lines, i + 1, in_fence, slug_counts, min_level,
                                       max_level)
                 ELSE LET Appended(s) ==
                              << [level |-> line.level,
                                  text |-> clean_heading_text(line.text),
                                  anchor |-> s.anchor] >>
                                  \o collect_headings(lines, i + 1, in_fence, s.counts,
                                                      min_level, max_level)
                      IN Appended(slugify(line.text, slug_counts))

\* build_toc: the lines of the TOC body
build_toc(headings, min_level) ==
    IF headings = << >>
    THEN << PlainLine("comment") >>
    ELSE [i \in 1..Len(headings) |->
             Line("item",
                  IF headings[i].level > min_level THEN headings[i].level - min_level ELSE 0,
                  headings[i].text, headings[i].anchor)]

\* The least of a set of line numbers, 0 if there is none
First(found) == IF found = {} THEN 0 ELSE CHOOSE k \in found : \A j \in found : k <= j

\* "\n".join(new_lines).rstrip() + "\n": the empty lines at the end are gone
RECURSIVE Joined(_)
Joined(new_lines) ==
    IF new_lines # << >> /\ new_lines[Len(new_lines)].kind = "blank"
    THEN Joined(SubSeq(new_lines, 1, Len(new_lines) - 1))
    ELSE [lines |-> new_lines, newline |-> TRUE]

replace_or_insert_toc(content, toc_body) ==
    LET lines == content.lines
        i == First({k \in 1..Len(lines) : MatchesTocHeading(lines[k])})
        h == First({k \in 1..Len(lines) : MatchesHeading(lines[k]) /\ lines[k].level = 1})
    IN IF i # 0
       THEN LET found == First({k \in (i + 1)..Len(lines) :
                                   MatchesHeading(lines[k])
                                       /\ lines[k].level <= lines[i].level})
                end == IF found = 0 THEN Len(lines) + 1 ELSE found
            IN [content |-> Joined(SubSeq(lines, 1, i - 1) \o << lines[i] >> \o toc_body
                                       \o << PlainLine("blank") >>
                                       \o SubSeq(lines, end, Len(lines))),
                changed_possible |-> TRUE]
       ELSE IF h # 0
       THEN [content |-> Joined(SubSeq(lines, 1, h)
                                    \o << PlainLine("blank"), HeadingLine(2, TocTitle) >>
                                    \o toc_body \o << PlainLine("blank") >>
                                    \o SubSeq(lines, h + 1, Len(lines))),
             changed_possible |-> TRUE]
       ELSE [content |-> content, changed_possible |-> FALSE]

\* process_file with a path.write_text that --check does not hold back
ProcessFileAlwaysWrites(original, min_level, max_level, check_only) ==
    LET Written(toc_body, r, changed) ==
            IF ~r.changed_possible
            THEN [changed |-> FALSE, status |-> "no-h1", updated |-> original,
                  wrote |-> FALSE, toc_body |-> toc_body]
            ELSE [changed |-> changed, status |-> IF changed THEN "updated" ELSE "unchanged",
                  updated |-> r.content, wrote |-> changed, toc_body |-> toc_body]
        Replaced(toc_body, r) == Written(toc_body, r, r.content # original)
        Built(toc_body) == Replaced(toc_body, replace_or_insert_toc(original, toc_body))
    IN Built(build_toc(collect_headings(original.lines, 1, FALSE, << >>, min_level,
                                        max_level), min_level))

\* process_file: what it returns, the text it computed and whether it wrote
process_file(original, min_level, max_level, check_only) ==
    LET Written(toc_body, r, changed) ==
            IF ~r.changed_possible
            THEN [changed |-> FALSE, status |-> "no-h1", updated |-> original,
                  wrote |-> FALSE, toc_body |-> toc_body]
            ELSE [changed |-> changed, status |-> IF changed THEN "updated" ELSE "unchanged",
                  updated |-> r.content, wrote |-> changed /\ ~check_only, toc_body |-> toc_body]
        Replaced(toc_body, r) == Written(toc_body, r, r.content # original)
        Built(toc_body) == Replaced(toc_body, replace_or_insert_toc(original, toc_body))
    IN Built(build_toc(collect_headings(original.lines, 1, FALSE, << >>, min_level,
                                        max_level), min_level))

RECURSIVE SeqsUpTo(_, _)
SeqsUpTo(S, n) ==
    IF n = 0 THEN { << >> }
    ELSE LET shorter == SeqsUpTo(S, n - 1)
         IN shorter \cup {Append(s, e) : s \in {t \in shorter : Len(t) = n - 1}, e \in S}

\* The texts of the files, of lines "# A", "## a", "## Table of Contents",
\* a fence, prose, an empty line and "- [a](#a)": a text without a newline at
\* its end has a last line that is not empty, and the empty text has no line
Contents ==
    {c \in [lines : SeqsUpTo({ HeadingLine(1, << "A" >>), HeadingLine(2, << "a" >>),
                               HeadingLine(2, TocTitle), PlainLine("fence"),
                               PlainLine("text"), PlainLine("blank"),
                               Line("item", 0, << "a" >>, << "a" >>) }, MaxLines),
            newline : BOOLEAN] :
        IF c.lines = << >> THEN ~c.newline
        ELSE c.newline \/ c.lines[Len(c.lines)].kind # "blank"}

\* Three texts for the runs over more than one file: one whose TOC is up to
\* date, one without a TOC and one without a place for it
SmallContents ==
    { [lines |-> << HeadingLine(2, TocTitle), Line("item", 0, << "a" >>, << "a" >>),
                    PlainLine("blank"), HeadingLine(2, << "a" >>) >>, newline |-> TRUE],
      [lines |-> << HeadingLine(1, << "A" >>), PlainLine("text") >>, newline |-> TRUE],
      [lines |-> << PlainLine("text") >>, newline |-> TRUE] }

\* iter_markdown_files: the files on disk, and those found under the paths,
\* sorted
FileSystems ==
    { << >> }
        \cup {[p \in {"a.md"} |-> c] : c \in Contents}
        \cup {[p \in {"a.md", "b.md"} |-> IF p = "a.md" THEN c ELSE d] :
                 c \in SmallContents, d \in SmallContents}
FilesFound(fs) == SelectSeq(<< "a.md", "b.md" >>, LAMBDA p : p \in DOMAIN fs)

\* parse_args: the default levels and a range that main rejects, with and
\* without --check
TocArgs ==
    {[check |-> c, min_level |-> l[1], max_level |-> l[2]] :
        c \in BOOLEAN, l \in {<< 2, 3 >>, << 3, 2 >>}}

ValidRange(args) ==
    /\ 1 <= args.min_level /\ args.min_level <= 6
    /\ 1 <= args.max_level /\ args.max_level <= 6
    /\ args.min_level <= args.max_level

\* generate_toc.py is started
TocInit ==
    /\ NoProcess
    /\ analyzer = [constructed |-> FALSE]
    /\ \E fs \in FileSystems, args \in TocArgs :
          /\ ValidRange(args) \/ fs \in [{"a.md"} -> SmallContents]
          /\ files = fs
          /\ run = [script |-> "generate_toc", args |-> args, paths |-> << >>, i |-> 1,
                    changed_any |-> FALSE, written |-> {}, exit_code |-> -1,
                    before |-> fs]
    /\ pc = "main"
    /\ console = << >>
    /\ error = FALSE
    /\ last = NoCall
    /\ nops = 0

\* main up to its loop: the two early returns
TocMain ==
    /\ pc = "main"
    /\ run.script = "generate_toc"
    /\ IF ~ValidRange(run.args)
       THEN /\ console' = Append(console, "Invalid heading range")
            /\ run' = [run EXCEPT !.exit_code = 2]
            /\ pc' = "exit"
       ELSE IF FilesFound(files) = << >>
       THEN /\ console' = Append(console, "No Markdown files found.")
            /\ run' = [run EXCEPT !.exit_code = 2]
            /\ pc' = "exit"
       ELSE /\ run' = [run EXCEPT !.paths = FilesFound(files)]
            /\ pc' = "loop"
            /\ console' = console
    /\ UNCHANGED << analyzer, files, params, materials, accelerator, suppressor, time,
                    current_step, idx, total_time, iterations, titles, error, snapshot,
                    last, nops >>

\* One round of the loop of main: process_file and the line it prints
TocProcessFile ==
    /\ pc = "loop"
    /\ run.script = "generate_toc"
    /\ run.i <= Len(run.paths)
    /\ \E path \in {run.paths[run.i]} :
       \E r \in {process_file(files[path], run.args.min_level, run.args.max_level,
                              run.args.check)} :
          /\ files' = IF r.wrote THEN [files EXCEPT ![path] = r.updated] ELSE files
          /\ run' = [run EXCEPT !.i = @ + 1,
                                !.changed_any = @ \/ r.changed,
                                !.written = IF r.wrote THEN @ \cup {path} ELSE @]
          /\ console' = Append(console, << r.status, path >>)
          /\ last' = [op |-> "process_file", path |-> path, original |-> files[path],
                      toc_body |-> r.toc_body, updated |-> r.updated,
                      changed |-> r.changed, status |-> r.status]
    /\ UNCHANGED << analyzer, params, materials, accelerator, suppressor, time,
                    current_step, pc, idx, total_time, iterations, titles, error,
                    snapshot, nops >>

\* The end of main
TocReturn ==
    /\ pc = "loop"
    /\ run.script = "generate_toc"
    /\ run.i > Len(run.paths)
    /\ run' = [run EXCEPT !.exit_code = IF run.args.check /\ run.changed_any THEN 1 ELSE 0]
    /\ pc' = "exit"
    /\ UNCHANGED << analyzer, files, params, materials, accelerator, suppressor, time,
                    current_step, idx, total_time, iterations, console, titles, error,
                    snapshot, last, nops >>

TocNext == TocMain \/ TocProcessFile \/ TocReturn

TocSpec == TocInit /\ [][TocNext]_vars

\* ========================================================== check_links.py
\* A link target as parse_target returns it: the scheme urlparse finds in
\* it, whether it starts with "//", its path part, whether it holds a "#"
\* and the fragment after the "#".  The targets hold no percent escape:
\* unquote leaves them as they are.  A line of kind "links" holds the targets
\* of its links, in order, in its text.
Target(scheme, slashes, path, hash, frag) ==
    [scheme |-> scheme, slashes |-> slashes, path |-> path, hash |-> hash, frag |-> frag]

\* "https://example.org", "//example.org/x", "#a", "#z", "b.md#a",
\* "missing.md", "dir/#a", "img.png#a", "#" and the empty target of "[x]( )"
Targets ==
    { Target("https", TRUE, "example.org", FALSE, << >>),
      Target("", TRUE, "example.org/x", FALSE, << >>),
      Target("", FALSE, "", TRUE, << "a" >>),
      Target("", FALSE, "", TRUE, << "z" >>),
      Target("", FALSE, "b.md", TRUE, << "a" >>),
      Target("", FALSE, "missing.md", FALSE, << >>),
      Target("", FALSE, "dir", TRUE, << "a" >>),
      Target("", FALSE, "img.png", TRUE, << "a" >>),
      Target("", FALSE, "", TRUE, << >>),
      Target("", FALSE, "", FALSE, << >>) }

\* resolved.exists(): beside the Markdown files, a directory "dir" and an
\* image "img.png" are on disk
Exists(fs, path) == path \in DOMAIN fs \/ path \in {"dir", "img.png"}

\* is_external_target
is_external_target(target) == target.scheme # "" \/ target.slashes

\* not target
IsEmptyTarget(target) ==
    target.scheme = "" /\ ~target.slashes /\ target.path = "" /\ ~target.hash

\* slugify of check_links.py, its clean_heading_text within
links_slugify(text, counts) ==
    LET Counted(slug, n) ==
            [anchor |-> IF n = 0 THEN slug ELSE slug \o << "-", Digits[n + 1] >>,
             counts |-> [s \in DOMAIN counts \cup {slug} |->
                            IF s = slug THEN n + 1 ELSE counts[s]]]
        Named(slug) == Counted(slug, IF slug \in DOMAIN counts THEN counts[slug] ELSE 0)
        OrSection(stripped) ==
            Named(IF stripped = << >> THEN << "s", "e", "c", "t", "i", "o", "n" >>
                  ELSE stripped)
    IN OrSection(StripHyphens(Hyphenate(
           SelectSeq(LowerText(JoinWords(strip_inline_code(text), 1)),
                     LAMBDA c : c \in WordChars \cup {" ", "-"}), 1)))

\* collect_anchors from line i on: the anchors of the headings outside the
\* fenced code blocks
RECURSIVE CollectAnchors(_, _, _, _)
CollectAnchors(lines, i, in_fence, counts) ==
    IF i > Len(lines) THEN {}
    ELSE LET line == lines[i]
         IN IF MatchesFence(line)
            THEN CollectAnchors(lines, i + 1, ~in_fence, counts)
            ELSE IF in_fence \/ ~MatchesHeading(line)
                 THEN CollectAnchors(lines, i + 1, in_fence, counts)
                 ELSE LET Added(s) ==
                              {s.anchor} \cup CollectAnchors(lines, i + 1, in_fence, s.counts)
                      IN Added(links_slugify(line.text, counts))

\* The loop of collect_anchors from line i on, heading by heading: the line
\* of each heading outside the fenced code blocks and the anchor slugify
\* returns for it
RECURSIVE AnchorsByLine(_, _, _, _)
AnchorsByLine(lines, i, in_fence, counts) ==
    IF i > Len(lines) THEN << >>
    ELSE LET line == lines[i]
         IN IF MatchesFence(line)
            THEN AnchorsByLine(lines, i + 1, ~in_fence, counts)
            ELSE IF in_fence \/ ~MatchesHeading(line)
                 THEN AnchorsByLine(lines, i + 1, in_fence, counts)
                 ELSE LET Added(s) ==
                              << [line |-> i, anchor |-> s.anchor] >>
                                  \o AnchorsByLine(lines, i + 1, in_fence, s.counts)
                      IN Added(links_slugify(line.text, counts))

\* collect_anchors(md_file, cache): the anchors, and the cache as the call
\* leaves it
collect_anchors(fs, md_file, cache) ==
    IF md_file \in DOMAIN cache
    THEN [anchors |-> cache[md_file], cache |-> cache]
    ELSE LET Cached(anchors) ==
                 [anchors |-> anchors,
                  cache |-> [f \in DOMAIN cache \cup {md_file} |->
                                IF f = md_file THEN anchors ELSE cache[f]]]
         IN Cached(CollectAnchors(fs[md_file].lines, 1, FALSE, << >>))

\* iter_links without the fence test: the links of every line
RECURSIVE IterLinksNoFence(_, _, _)
IterLinksNoFence(lines, i, in_fence) ==
    IF i > Len(lines) THEN << >>
    ELSE (IF lines[i].kind = "links"
          THEN [k \in 1..Len(lines[i].text) |-> [line |-> i, target |-> lines[i].text[k]]]
          ELSE << >>) \o IterLinksNoFence(lines, i + 1, in_fence)

\* iter_links from line i on: the line numbers and targets of the links
\* outside the fenced code blocks
RECURSIVE iter_links(_, _, _)
iter_links(lines, i, in_fence) ==
    IF i > Len(lines) THEN << >>
    ELSE IF MatchesFence(lines[i]) THEN iter_links(lines, i + 1, ~in_fence)
    ELSE IF in_fence THEN iter_links(lines, i + 1, in_fence)
    ELSE (IF lines[i].kind = "links"
          THEN [k \in 1..Len(lines[i].text) |-> [line |-> i, target |-> lines[i].text[k]]]
          ELSE << >>) \o iter_links(lines, i + 1, in_fence)

\* validate_link: the issues, and the anchor cache as the call leaves it
validate_link(fs, source_file, line_no, target, anchor_cache) ==
    LET Issue(message) == << [file |-> source_file, line |-> line_no, target |-> target,
                              message |-> message] >>
        Own(c) == [issues |-> IF target.frag # << >> /\ target.frag \notin c.anchors
                              THEN Issue("missing anchor")
                              ELSE IF target.frag = << >> THEN Issue("empty link target")
                              ELSE << >>,
                   cache |-> c.cache]
        Other(c) == [issues |-> IF target.frag \notin c.anchors THEN Issue("missing anchor")
                                ELSE << >>,
                     cache |-> c.cache]
    IN IF IsEmptyTarget(target)
       THEN [issues |-> Issue("empty link target"), cache |-> anchor_cache]
       ELSE IF is_external_target(target)
       THEN [issues |-> << >>, cache |-> anchor_cache]
       ELSE IF target.path = ""
       THEN Own(collect_anchors(fs, source_file, anchor_cache))
       ELSE IF ~Exists(fs, target.path)
       THEN [issues |-> Issue("missing path"), cache |-> anchor_cache]
       ELSE IF target.frag = << >>
       THEN [issues |-> << >>, cache |-> anchor_cache]
       ELSE IF target.path = "dir"
       THEN [issues |-> Issue("cannot validate anchor on directory link"),
             cache |-> anchor_cache]
       ELSE IF target.path \notin {"a.md", "b.md", "missing.md"}
       THEN [issues |-> Issue("anchor target is not a Markdown file"),
             cache |-> anchor_cache]
       ELSE Other(collect_anchors(fs, target.path, anchor_cache))

\* The loop over iter_links(md_file) of main, from link k on
RECURSIVE ValidateLinks(_, _, _, _, _)
ValidateLinks(fs, md_file, links, k, anchor_cache) ==
    IF k > Len(links) THEN [issues |-> << >>, cache |-> anchor_cache]
    ELSE LET Extended(v, rest) == [issues |-> v.issues \o rest.issues, cache |-> rest.cache]
             Validated(v) == Extended(v, ValidateLinks(fs, md_file, links, k + 1, v.cache))
         IN Validated(validate_link(fs, md_file, links[k].line, links[k].target,
                                    anchor_cache))

\* The texts of a.md: lines of prose, fences at the margin and indented, a
\* heading and links to one target; the texts of b.md: with the heading the links ask for, without it
LinkContents ==
    UNION { {[lines |-> l, newline |-> TRUE] :
                l \in SeqsUpTo({PlainLine("text"), PlainLine("fence"),
                                Line("fence", 1, << >>, << >>),
                                HeadingLine(2, << "a" >>),
                                Line("links", 0, << t >>, << >>)},
                               MaxLines) \ { << >> }} :
            t \in Targets }
LinkFileSystems ==
    { << >> }
        \cup {[p \in {"a.md"} |-> c] : c \in LinkContents}
        \cup {[p \in {"a.md", "b.md"} |-> IF p = "a.md" THEN c ELSE d] :
                 c \in LinkContents,
                 d \in {[lines |-> << HeadingLine(1, << "A" >>),
                                      Line("links", 0, << Target("", FALSE, "", TRUE,
                                                                 << "a" >>) >>, << >>) >>,
                         newline |-> TRUE],
                        [lines |-> << HeadingLine(2, << "a" >>) >>, newline |-> TRUE]}}

\* check_links.py is started
LinksInit ==
    /\ NoProcess
    /\ analyzer = [constructed |-> FALSE]
    /\ \E fs \in LinkFileSystems :
          /\ files = fs
          /\ run = [script |-> "check_links", paths |-> << >>, i |-> 1, issues |-> << >>,
                    anchor_cache |-> << >>, exit_code |-> -1]
    /\ pc = "main"
    /\ console = << >>
    /\ error = FALSE
    /\ last = NoCall
    /\ nops = 0

\* main up to its loop
LinksMain ==
    /\ pc = "main"
    /\ run.script = "check_links"
    /\ IF FilesFound(files) = << >>
       THEN /\ console' = Append(console, "No Markdown files found.")
            /\ run' = [run EXCEPT !.exit_code = 2]
            /\ pc' = "exit"
       ELSE /\ run' = [run EXCEPT !.paths = FilesFound(files)]
            /\ pc' = "loop"
            /\ console' = console
    /\ UNCHANGED << analyzer, files, params, materials, accelerator, suppressor, time,
                    current_step, idx, total_time, iterations, titles, error, snapshot,
                    last, nops >>

\* One round of the loop of main: the links of one file
LinksCheckFile ==
    /\ pc = "loop"
    /\ run.script = "check_links"
    /\ run.i <= Len(run.paths)
    /\ \E md_file \in {run.paths[run.i]} :
       \E r \in {ValidateLinks(files, md_file, iter_links(files[md_file].lines, 1, FALSE),
                               1, run.anchor_cache)} :
          /\ run' = [run EXCEPT !.i = @ + 1, !.issues = @ \o r.issues,
                                !.anchor_cache = r.cache]
          /\ console' = Append(console, << IF r.issues = << >> THEN "ok" ELSE "issues",
                                           md_file >>)
          /\ last' = [op |-> "check_file", path |-> md_file, issues |-> r.issues]
    /\ UNCHANGED << analyzer, files, params, materials, accelerator, suppressor, time,
                    current_step, pc, idx, total_time, iterations, titles, error,
                    snapshot, nops >>

\* The end of main
LinksReturn ==
    /\ pc = "loop"
    /\ run.script = "check_links"
    /\ run.i > Len(run.paths)
    /\ run' = [run EXCEPT !.exit_code = IF run.issues # << >> THEN 1 ELSE 0]
    /\ console' = Append(console, IF run.issues # << >> THEN "Link check failures:"
                                  ELSE "All checked links passed.")
    /\ pc' = "exit"
    /\ UNCHANGED << analyzer, files, params, materials, accelerator, suppressor, time,
                    current_step, idx, total_time, iterations, titles, error, snapshot,
                    last, nops >>

LinksNext == LinksMain \/ LinksCheckFile \/ LinksReturn

LinksSpec == LinksInit /\ [][LinksNext]_vars

\* ================================================================ the claims
\* The columns of the last etch_feature call's window [start_x, end_x)
WindowCols == {x \in Cols : last.start_x <= x /\ x < last.end_x}

\* The last console line
LastLine == IF console = << >> THEN "" ELSE console[Len(console)]

\* A line was printed
Printed(line) == \E i \in DOMAIN console : console[i] = line

\* Max minus min of the column surface heights of the wafer, in nm
Spread(m) ==
    LET tops == {Max(TopRow(m, x), 0) : x \in Cols}
    IN (SetMax(tops) - SetMin(tops)) * dy(params)

\* The depth of the feature the running stage has etched, in nm: from the
\* surface the stage began with down to the deepest cell removed since, in
\* the columns of the window (the offset of that cell, as etch_feature counts
\* depth within one call); 0 if nothing was removed
EtchedDepth ==
    LET D == {TopRow(snapshot, x) - y : <<y, x>> \in
                 {c \in Rows \X WindowCols :
                     snapshot[c[1]][c[2]] # VACUUM /\ materials[c[1]][c[2]] = VACUUM}}
    IN IF D = {} THEN 0 ELSE SetMax(D) * dy(params)

\* An etch stage has made at least one call of etch_feature
InEtchStage == pc \in {"run", "show"} /\ idx \in {1, 2} /\ iterations > 0 /\ last.op = "etch"

\* The lines the program prints when all goes well
ProgressLines ==
    {StepNames[i] : i \in DOMAIN StepNames} \cup {StartMessages[i] : i \in DOMAIN StartMessages}
    \cup {"Starting Dual Damascene Process Simulation", "Via etch completed",
          "Trench etch completed", "Barrier deposition complete",
          "Seed layer deposition complete", "Electroplating completed",
          "CMP completed - Surface planar"}

IsPrefix(s, t) == Len(s) <= Len(t) /\ \A i \in DOMAIN s : s[i] = t[i]

\* C1: run_full_process draws the 8 named stages, each once and in the order
\* of the list, never raises, and always reaches the end, whether or not a
\* stage met its target.
C1_StagesInOrder ==
    /\ [](IsPrefix(titles, StepNames) /\ ~error)
    /\ <>(pc = "done" /\ titles = StepNames)

\* The default run has ended, all 8 stages drawn, though the via etch never
\* reported completion and the CMP stopped at its max time
C1_Witness ==
    /\ pc = "done" /\ titles = StepNames /\ ~error
    /\ params = ProcessParameters
    /\ ~Printed("Via etch completed")
    /\ Printed("CMP stopped at max time")

\* After the call, in every column of the window, no cell of the target
\* material is left at or above the depth the call reached below the surface
\* the column was scanned from
NoTargetAbove ==
    \A x \in WindowCols :
        last.surface[x] >= 0 =>
            \A y \in Rows :
                y >= last.surface[x] - last.current_depth => materials[y][x] # last.material

\* C2 as claimed: once etch_feature reports the etch complete, no cell of the
\* target material remains in a window column above the depth achieved.
C2_NoTargetLeft == (last.op = "etch" /\ last.finished) => NoTargetAbove

\* C2 as amended: the same for a solid target material other than NITRIDE,
\* the one material whose removal is drawn at random.
C2_NoTargetLeftButNitride ==
    (last.op = "etch" /\ last.finished /\ last.material \notin {NITRIDE, VACUUM})
        => NoTargetAbove

\* A completed etch of a target other than NITRIDE that removed target cells
\* down to a depth of at least one row below the surface
C2_Witness ==
    /\ last.op = "etch" /\ last.finished /\ last.material # NITRIDE
    /\ last.current_depth >= 1
    /\ \E x \in WindowCols :
          /\ last.surface[x] >= last.current_depth
          /\ last.before[last.surface[x] - last.current_depth][x] = last.material
          /\ materials[last.surface[x] - last.current_depth][x] = VACUUM

\* C3: etch_feature returns True exactly when the depth etched so far, over
\* all the calls of the stage, is at least 95% of target_depth.
C3_TrueAtTargetDepth ==
    InEtchStage =>
        (last.finished <=> EtchedDepth * 100 >= last.target_depth * FinishedPercent)

\* The cells of column x that face the wall the higher neighbour xn exposes
WallRows(m, x, xn) == {y \in Rows : TopRow(m, x) < y /\ y <= TopRow(m, xn)}

\* Neighbouring columns with a height step from x up to xn
Steps(m) ==
    {s \in Cols \X Cols :
        /\ s[1] - s[2] \in {-1, 1}
        /\ TopRow(m, s[1]) >= 0
        /\ TopRow(m, s[1]) < TopRow(m, s[2])}

\* C4: with step_coverage 1.0 every exposed sidewall is coated as the top
\* surface is (the cell next to the wall holds the deposited material all
\* along the wall), and with step_coverage 0.0 nothing is deposited on a
\* wall beyond the top-surface deposit.
C4_SidewallAsCoverage ==
    (last.op = "deposit" /\ pc = "show" /\ last.target_pixels >= 1) =>
        \A s \in Steps(last.before) :
            \A y \in WallRows(last.before, s[1], s[2]) :
                /\ last.step_coverage = 100 => materials[y][s[1]] = last.material
                /\ (last.step_coverage = 0 /\ y > TopRow(last.before, s[1]) + last.target_pixels)
                      => materials[y][s[1]] = last.before[y][s[1]]

\* C5: in the CMP loop the surface is not planar (max - min >= tolerance)
\* while the loop goes on; after the polish step that brings max - min below
\* the tolerance is_planar is True, which is reported, and the loop stops;
\* the loop stops without that report only at its max time.
C5_PlanarStopsPolish ==
    (idx = 6 /\ iterations > 0 /\ pc \in {"run", "show"}) =>
        /\ pc = "run" => Spread(materials) >= CmpTolerance
        /\ Spread(materials) < CmpTolerance
              => (pc = "show" /\ Printed("CMP completed - Surface planar"))
        /\ (pc = "show" /\ Spread(materials) >= CmpTolerance)
              => (~Printed("CMP completed - Surface planar") /\ total_time >= CmpMaxTime)

\* The CMP loop has stopped on a planar surface that was not planar before
\* its last polish step
C5_Witness ==
    /\ idx = 6 /\ pc = "show" /\ iterations >= 2
    /\ last.op = "polish"
    /\ Spread(last.before) >= CmpTolerance
    /\ Spread(materials) < CmpTolerance
    /\ total_time < CmpMaxTime

\* C6: a Via Etch, Trench Etch or CMP Polish stage that ends at its max time
\* without reaching its target ends with a warning on the console.
C6_TimeoutWarns ==
    (/\ pc = "show" /\ iterations > 0
     /\ \/ (idx \in {1, 2} /\ last.op = "etch" /\ ~last.finished)
        \/ (idx = 6 /\ Spread(materials) >= CmpTolerance))
    => LastLine \notin ProgressLines

\* max_time / dt of the stage loops
MaxSteps ==
    [i \in 0..7 |->
        IF i = 1 THEN ViaMaxTime \div ViaDt
        ELSE IF i = 2 THEN TrenchMaxTime \div TrenchDt
        ELSE IF i = 5 THEN PlateMaxTime \div PlateDt
        ELSE IF i = 6 THEN CmpMaxTime \div CmpDt
        ELSE 0]

\* C7: each stage loop makes at most max_time / dt rounds, up to rounding:
\* one round more in the one loop (the trench etch) whose accumulated time
\* after max_time / dt rounds is rounded to below max_time.
C7_LoopsBounded ==
    (idx \in 0..7 /\ pc \in {"run", "show"}) =>
        /\ iterations <= MaxSteps[idx] + 1
        /\ iterations > MaxSteps[idx] => idx = 2

\* A stage loop has run to its bound: the trench etch, one round beyond
\* max_time / dt by rounding
C7_Witness ==
    /\ idx = 2 /\ pc = "show"
    /\ iterations = TrenchMaxTime \div TrenchDt + 1
    /\ ~last.finished

\* C8: the trench etch loop goes on only while the trench is short of 95% of
\* trench_depth, so the trench ends no deeper than trench_depth plus what
\* one timestep etches.
C8_TrenchStopsAtDepth ==
    (idx = 2 /\ iterations > 0 /\ last.op = "etch") =>
        /\ pc = "run" => EtchedDepth * 100 < params.trench_depth * FinishedPercent
        /\ pc = "show" => EtchedDepth <= params.trench_depth + last.etch_pixels * dy(params)

\* C9: below a NITRIDE cell that the downward pass of a column met and did
\* not remove, no cell of the column is removed in the call.
C9_StopsAtNitride ==
    last.op = "etch" =>
        \A x \in WindowCols : \A y \in Rows :
            (/\ last.surface[x] >= 0
             /\ y \in PassRows(last.surface[x], last.etch_pixels)
             /\ last.before[y][x] = NITRIDE /\ materials[y][x] = NITRIDE)
            => \A yb \in Rows :
                  yb < y => ~(last.before[yb][x] # VACUUM /\ materials[yb][x] = VACUUM)

\* The cells outside the window columns that the last call changed
ChangedOutside ==
    {c \in Rows \X (Cols \ WindowCols) : materials[c[1]][c[2]] # last.before[c[1]][c[2]]}

\* floor(etch_pixels * (1 - anisotropy)) of the last call
ClaimedLateral == (last.etch_pixels * (100 - params.etch_anisotropy)) \div 100

\* C10: outside the window etch_feature changes only cells of the target
\* material, to VACUUM, in columns exactly floor(etch_pixels * (1 -
\* anisotropy)) away from a window column; none when that distance is 0.
C10_OutsideOnlyLateral ==
    last.op = "etch" =>
        \A c \in ChangedOutside :
            /\ ClaimedLateral > 0
            /\ (c[2] + ClaimedLateral \in WindowCols \/ c[2] - ClaimedLateral \in WindowCols)
            /\ last.before[c[1]][c[2]] = last.material
            /\ materials[c[1]][c[2]] = VACUUM

\* A call with a lateral etch of at least one column that removed a cell
\* outside its window
C10_Witness ==
    /\ last.op = "etch"
    /\ ClaimedLateral >= 1
    /\ ChangedOutside # {}

\* The last call was made on the tools directly
ToolCall(op) == pc = "tools" /\ last.op = op

\* C11: for every center_x and width, also a window over or beyond an edge
\* of the wafer, every cell index etch_feature uses lies on the grid (none
\* is negative, none wraps), no error is raised, and the window is the
\* requested one clipped to the columns of the grid.
C11_EtchStaysOnGrid ==
    ToolCall("etch") =>
        /\ last.indices \subseteq Rows \X Cols
        /\ ~error
        /\ WindowCols = {x \in Cols : /\ last.center_idx - last.width_idx \div 2 <= x
                                      /\ x < last.center_idx + last.width_idx \div 2}

\* An etch of a window that reaches over the left edge, whose pass ran to the
\* bottom of the grid and emptied column 0
C11_Witness ==
    /\ ToolCall("etch")
    /\ last.center_idx - last.width_idx \div 2 < 0
    /\ last.start_x = 0 /\ last.end_x > 0
    /\ last.surface[0] >= 0
    /\ last.etch_pixels > last.surface[0] + 1
    /\ materials[0][0] = VACUUM /\ last.before[0][0] # VACUUM

C13_PlatesUpwardOnly ==
    ToolCall("plate") =>
        \A y \in Rows : \A x \in Cols :
            materials[y][x] # last.before[y][x] =>
                /\ last.before[y][x] = VACUUM
                /\ materials[y][x] = COPPER
                /\ CopperTop(last.before, x) >= 0
                /\ y > CopperTop(last.before, x)

\* A plate_step that grew copper in one column and none in another column
\* that holds copper seed
C13_Witness ==
    /\ ToolCall("plate")
    /\ \E x \in Cols : CopperTop(materials, x) > CopperTop(last.before, x)
    /\ \E x \in Cols :
          /\ CopperTop(last.before, x) >= 0
          /\ CopperTop(materials, x) = CopperTop(last.before, x)

\* The copper-surface cell (y, x) lies in a recess: a column within the
\* neighborhood stands higher
Recessed(m, x, y) ==
    /\ y >= 0 /\ y = CopperTop(m, x)
    /\ \E c \in Cols : c - x \in -Neighborhood..Neighborhood /\ TopRow(m, c) > y

\* The depth of the recess in nm, at most the 200 nm the factor is normalised
\* to: how far the highest column of the neighborhood stands above row y
RecessNm(m, x, y) ==
    LET tops == {TopRow(m, c) : c \in {cc \in Cols : cc - x \in -Neighborhood..Neighborhood}}
    IN Min((SetMax(tops \cup {y}) - y) * dy(params), FeatureDepth)

\* C14: plate_step changes the additive fields only at the copper-surface
\* cells that lie in a recess: there the accelerator rises by dt *
\* depth_factor / diffusion_length, up to the clip at 10, and the suppressor
\* is multiplied by 0.99, down to the clip at 0.1; at all times every
\* accelerator value is in [0, 10] and every suppressor value in [0.1, 1].
C14_AdditivesInRecesses ==
    pc = "tools" =>
        /\ \A y \in Rows : \A x \in Cols :
              /\ 0 <= accelerator[y][x] /\ accelerator[y][x] <= AcceleratorMax
              /\ SuppressorMin <= suppressor[y][x] /\ suppressor[y][x] <= SuppressorOne
        /\ last.op = "plate" =>
              \A y \in Rows : \A x \in Cols :
                  IF Recessed(last.before, x, y)
                  THEN /\ accelerator[y][x] =
                            Min(AcceleratorMax,
                                last.accelerator[y][x]
                                  + (last.dt * 10000000 * RecessNm(last.before, x, y))
                                       \div (FeatureDepth * params.diffusion_length))
                       /\ accelerator[y][x] > last.accelerator[y][x]
                            \/ last.accelerator[y][x] = AcceleratorMax
                       /\ suppressor[y][x] =
                            Max(SuppressorMin, (last.suppressor[y][x] * 99) \div 100)
                  ELSE /\ accelerator[y][x] = last.accelerator[y][x]
                       /\ suppressor[y][x] = last.suppressor[y][x]

\* A plate_step that raised the accelerator and lowered the suppressor at a
\* recessed copper surface and left them at a copper surface that is not
\* recessed
C14_Witness ==
    /\ ToolCall("plate")
    /\ \E x \in Cols :
          LET y == CopperTop(last.before, x)
          IN /\ Recessed(last.before, x, y)
             /\ accelerator[y][x] > last.accelerator[y][x]
             /\ suppressor[y][x] < last.suppressor[y][x]
    /\ \E x \in Cols :
          LET y == CopperTop(last.before, x)
          IN /\ y >= 0 /\ ~Recessed(last.before, x, y)
             /\ accelerator[y][x] = 0 /\ suppressor[y][x] = SuppressorOne

\* The cells of column x the last call removed
RemovedCells(x) ==
    {y \in Rows : last.before[y][x] # VACUUM /\ materials[y][x] = VACUUM}

\* C15: polish_step removes a cell at the rate of the cell's own material: a
\* cell removed at offset d below the surface of its column lies within the
\* int(base_rate * selectivity(material of the cell) * (1 + pressure) * dt /
\* dy) rows that its own material loses in one step.
C15_RemovedAtOwnRate ==
    ToolCall("polish") =>
        \A x \in Cols : \A y \in RemovedCells(x) :
            TopRow(last.before, x) - y <
                RemovalPixels(params, last.dt, Selectivity(last.before, params, x, y),
                              PressureNum(last.before, params)[x],
                              PressureDen(last.before, params))

\* The material tags on the grid
TagsOnGrid == {materials[y][x] : y \in Rows, x \in Cols}

\* C16: after any sequence of etch_feature, deposit_conformal, plate_step
\* and polish_step calls the grid has resolution rows of resolution columns
\* and every cell holds one of the eight tags of Material.
C16_GridOfMaterialTags ==
    pc = "tools" =>
        /\ DOMAIN materials = Rows
        /\ \A y \in Rows : DOMAIN materials[y] = Cols
        /\ TagsOnGrid \subseteq Material
        /\ Cardinality(Material) = 8

\* A grid of five different tags after three calls, the last a polish step
\* that removed cells of a deposited layer
C16_Witness ==
    /\ ToolCall("polish")
    /\ nops >= 3
    /\ \E x \in Cols : \E y \in RemovedCells(x) :
          last.before[y][x] \in {BARRIER, COPPER_SEED}
    /\ Cardinality(TagsOnGrid) >= 5

\* C17: oxide_thickness(0) is the initial oxide thickness: with time = 0 the
\* root of x^2 + A x = B tau is x_i, for every accepted parameter record
\* with initial_oxide >= 0.
\* C17: oxide_thickness(0) is the initial oxide thickness: with time = 0 the
\* root of x^2 + A x = B tau is x_i, for every accepted parameter record
\* with initial_oxide >= 0.
C17_ThicknessAtZero ==
    (pc = "oxide" /\ last.op = "oxide_thickness" /\ last.time = 0) =>
        /\ last.thickness.den # 0
        /\ last.thickness.num = analyzer.params.initial_oxide * last.thickness.den

\* The last process_file call of a generate_toc run
Processed == run.script = "generate_toc" /\ last.op = "process_file"

\* Line i stands in a fenced code block: it is a fence line or an odd number
\* of fence lines precede it
InFencedBlock(lines, i) ==
    \/ MatchesFence(lines[i])
    \/ Cardinality({k \in 1..(i - 1) : MatchesFence(lines[k])}) % 2 = 1

\* The lines that are headings outside the fenced code blocks
RealHeadings(lines) ==
    {k \in 1..Len(lines) : MatchesHeading(lines[k]) /\ ~InFencedBlock(lines, k)}

\* C18: replace_or_insert_toc places the TOC by the real headings of the
\* file, those outside the fenced code blocks.  With a 'Table of Contents'
\* heading, the lines from it up to the next heading of its level or above
\* give way to the heading, the TOC body and an empty line; without one, an
\* empty line, the heading, the body and an empty line are put in after the
\* first H1 and every original line is kept in order; with neither the text
\* comes back as it was with status 'no-h1'.
C18_TocPlacedAtRealHeadings ==
    Processed =>
        LET lines == last.original.lines
            t == First({k \in RealHeadings(lines) : MatchesTocHeading(lines[k])})
            h == First({k \in RealHeadings(lines) : lines[k].level = 1})
            next == First({k \in RealHeadings(lines) :
                              k > t /\ lines[k].level <= lines[t].level})
            end == IF next = 0 THEN Len(lines) + 1 ELSE next
        IN IF t # 0
           THEN last.updated = Joined(SubSeq(lines, 1, t) \o last.toc_body
                                          \o << PlainLine("blank") >>
                                          \o SubSeq(lines, end, Len(lines)))
           ELSE IF h # 0
           THEN last.updated = Joined(SubSeq(lines, 1, h)
                                          \o << PlainLine("blank"), HeadingLine(2, TocTitle) >>
                                          \o last.toc_body \o << PlainLine("blank") >>
                                          \o SubSeq(lines, h + 1, Len(lines)))
           ELSE last.updated = last.original /\ last.status = "no-h1"

\* The files a generate_toc run has processed when it returns
ProcessedPaths == {run.paths[k] : k \in 1..Len(run.paths)}

\* process_file would change the file as the run found it
WouldChange(path) ==
    process_file(run.before[path], run.args.min_level, run.args.max_level, TRUE).changed

\* C19: a run with --check writes no file; it returns 1 exactly when one of
\* the files it processed would change and 0 when it processed files and
\* none would.  A run without --check that found files under a valid
\* heading range returns 0.
C19_CheckOnlyReports ==
    run.script = "generate_toc" =>
        /\ run.args.check => run.written = {} /\ files = run.before
        /\ (pc = "exit" /\ run.args.check) =>
              /\ run.exit_code = 1 <=> \E path \in ProcessedPaths : WouldChange(path)
              /\ (ProcessedPaths # {} /\ \A path \in ProcessedPaths : ~WouldChange(path))
                     => run.exit_code = 0
        /\ (pc = "exit" /\ ~run.args.check /\ FilesFound(run.before) # << >>
               /\ ValidRange(run.args))
              => run.exit_code = 0

\* A --check run over two files, one up to date and one that would change,
\* has returned 1
C19_Witness ==
    /\ run.script = "generate_toc"
    /\ pc = "exit"
    /\ run.args.check
    /\ run.exit_code = 1
    /\ \E p, q \in ProcessedPaths : WouldChange(p) /\ ~WouldChange(q)
    /\ files = run.before

\* A check_links run has gone through its files
LinksChecked == run.script = "check_links" /\ pc = "exit" /\ run.exit_code # 2

\* An issue is reported for the link to target on line i of file f
Reported(f, i, target) ==
    \E k \in 1..Len(run.issues) :
        run.issues[k].file = f /\ run.issues[k].line = i /\ run.issues[k].target = target

\* The local target does not lead anywhere from file f: no such path, no such
\* anchor in the Markdown file it names, or an anchor on what is no Markdown
\* file
Broken(f, target) ==
    IF target.path = ""
    THEN target.frag = << >> \/ target.frag \notin CollectAnchors(files[f].lines, 1, FALSE, << >>)
    ELSE \/ ~Exists(files, target.path)
         \/ /\ target.frag # << >>
            /\ \/ target.path \notin {"a.md", "b.md", "missing.md"}
               \/ target.frag \notin CollectAnchors(files[target.path].lines, 1, FALSE, << >>)

\* Line i follows an odd number of lines that start with three backquotes,
\* or is one
BetweenMarginFences(lines, i) ==
    \/ MatchesFence(lines[i]) /\ lines[i].level = 0
    \/ Cardinality({k \in 1..(i - 1) : MatchesFence(lines[k]) /\ lines[k].level = 0}) % 2 = 1

\* No issue for the links that are external or in a fenced code block, one
\* between fences at the margin or one between any fences; the other links
\* with a target that is not empty are validated: reported exactly if the
\* target is broken
LinksJudged(margin_only) ==
    LinksChecked =>
        \A f \in DOMAIN files : \A i \in 1..Len(files[f].lines) :
            files[f].lines[i].kind = "links" =>
                \A k \in 1..Len(files[f].lines[i].text) :
                    LET target == files[f].lines[i].text[k]
                        external == target.scheme # "" \/ target.slashes
                        fenced == IF margin_only THEN BetweenMarginFences(files[f].lines, i)
                                  ELSE InFencedBlock(files[f].lines, i)
                    IN /\ (external \/ fenced) => ~Reported(f, i, target)
                       /\ (~external /\ ~fenced /\ ~IsEmptyTarget(target))
                             => (Reported(f, i, target) <=> Broken(f, target))

\* C20 as stated: check_links reports no issue for a link whose target has
\* a URL scheme or starts with "//", and none for a link on a line of a
\* fenced code block, where every line that starts with three backquotes
\* toggles the block; every other link with a target that is not empty is
\* validated.
C20_SkipsExternalAndFenced == LinksJudged(TRUE)

\* C20, amended: the same with the fenced code blocks of FENCE_RE, which
\* every line toggles whose first characters after optional white space are
\* three backquotes.
C20_SkipsExternalAndAnyFence == LinksJudged(FALSE)

\* A file with the same broken link inside a fenced code block whose fences
\* are indented and outside it, reported for the line outside only
C20_Witness ==
    /\ LinksChecked
    /\ \E f \in DOMAIN files : \E i, j \in 1..Len(files[f].lines) :
          /\ files[f].lines[i].kind = "links"
          /\ files[f].lines[j] = files[f].lines[i]
          /\ InFencedBlock(files[f].lines, i)
          /\ ~BetweenMarginFences(files[f].lines, i)
          /\ ~InFencedBlock(files[f].lines, j)
          /\ Broken(f, files[f].lines[i].text[1])
          /\ ~Reported(f, i, files[f].lines[i].text[1])
          /\ Reported(f, j, files[f].lines[i].text[1])

\* The Via Etch stage of the run with the default parameters has ended
ViaEtchEnded == params = ProcessParameters /\ idx = 1 /\ pc = "show"

\* C21: when the Via Etch stage of the default run ends, the via is etched
\* through the top oxide and the nitride etch stop: in no column of the via
\* window a cell of the top oxide or a NITRIDE cell is left, the surface of
\* the via lies in the bottom oxide.
C21_ViaThroughEtchStop ==
    ViaEtchEnded =>
        \A x \in last.start_x..(last.end_x - 1) : \A y \in Rows :
            y >= ToRows(params, params.bottom_oxide) => materials[y][x] = VACUUM

\* The values of step_coverage the deposition is compared under, in percent
StepCoverages == {0, 10, 20, 30, 40, 50, 60, 70, 80, 90, 100}

C23_TimeIsElapsedTime ==
    [][IF pc = "run" /\ iterations' = iterations + 1
       THEN time' - time = total_time' - total_time
       ELSE time' = time]_vars

\* C24: in the process flow with the default parameters every column stays
\* a solid stack, from the initial wafer to the Final Structure: no VACUUM
\* cell lies below a cell that is not VACUUM.
C24_ColumnsStaySolid ==
    params = ProcessParameters =>
        \A x \in Cols : \A y \in Rows :
            materials[y][x] = VACUUM => \A above \in (y + 1)..(Resolution - 1) :
                                            materials[above][x] = VACUUM

\* The default run has ended, after etches, depositions, plating and CMP,
\* on a wafer with a column that stands lower than its left neighbour
C24_Witness ==
    /\ params = ProcessParameters
    /\ pc = "done"
    /\ last.op = "polish"
    /\ materials # _initialize_layers(params)
    /\ \E x \in Cols \ {0} : TopRow(materials, x) < TopRow(materials, x - 1)

\* The cells of a grid that hold material
Filled(m) == {c \in Rows \X Cols : m[c[1]][c[2]] # VACUUM}

\* C25: etch_feature and polish_step never add material: every cell a call
\* changes held material before and is VACUUM afterwards, no column's surface
\* height is higher after the call, and the number of cells that hold
\* material does not grow
C25_RemovalOnly ==
    last.op \in {"etch", "polish"} =>
        /\ \A y \in Rows : \A x \in Cols :
              materials[y][x] # last.before[y][x] =>
                  last.before[y][x] # VACUUM /\ materials[y][x] = VACUUM
        /\ \A x \in Cols :
              get_surface_height(materials)[x] <= get_surface_height(last.before)[x]
        /\ Cardinality(Filled(materials)) <= Cardinality(Filled(last.before))

\* An etch call with lateral etching that removed cells and lowered a surface
C25_Witness ==
    /\ last.op = "etch"
    /\ last.lateral_etch > 0
    /\ Cardinality(Filled(materials)) < Cardinality(Filled(last.before))
    /\ \E x \in Cols : get_surface_height(materials)[x] < get_surface_height(last.before)[x]

\* --------------------------------------------------- plating on its own
\* A freshly constructed Electroplater on a wafer prepared by etch_feature
\* and deposit_conformal calls, and then plate_step only: one call of
\* plate_step with the timestep of the process.  After the first call no
\* other tool touches the wafer.
PlateOnly ==
    /\ pc \in {"tools", "plating"}
    /\ iterations < MaxPlateSteps
    /\ \E r \in {plate_step(materials, accelerator, suppressor, params, PlateDt)} :
          /\ materials' = r.materials
          /\ accelerator' = r.accelerator
          /\ suppressor' = r.suppressor
    /\ last' = PlateCall(materials)
    /\ iterations' = iterations + 1
    /\ pc' = "plating"
    /\ UNCHANGED << elsewhere, params, time, current_step, idx, total_time, console, titles,
                    error, snapshot, nops >>

\* The wafer is prepared before the Electroplater is first used
PlatePrepare == nops < MaxPrepare /\ (ToolEtch \/ ToolDeposit)

PlateNext == PlatePrepare \/ PlateOnly

PlateSpec == ToolInit /\ [][PlateNext]_vars

\* The columns whose copper or seed surface is at least as high as the
\* topmost filled cell of every column within five columns, itself included
NotRecessed(m) ==
    {x \in Cols : /\ CopperTop(m, x) >= 0
                  /\ \A xc \in Cols : x - Neighborhood <= xc /\ xc <= x + Neighborhood
                                         => TopRow(m, xc) <= CopperTop(m, x)}

\* C26: with a fresh Electroplater and plate_step only, a column whose
\* copper/seed surface is not below the top of any column within five
\* columns receives no copper in the step
C26_NoPlatingUnlessRecessed ==
    last.op = "plate" =>
        \A x \in NotRecessed(last.before) : \A y \in Rows :
            materials[y][x] = last.before[y][x]

\* A third or later plate_step in which a recessed column grew while a
\* column that is not recessed, and carries copper plated earlier, did not
C26_Witness ==
    /\ last.op = "plate"
    /\ iterations >= 3
    /\ materials # last.before
    /\ \E x \in NotRecessed(last.before) : materials[CopperTop(materials, x)][x] = COPPER

\* C27 as stated: a single polish_step never increases the surface
\* variation (max minus min of the column surface heights)
C27_VariationNeverGrows ==
    last.op = "polish" => Variation(materials, params) <= Variation(last.before, params)

\* C27: a single polish_step never raises the surface height of a column,
\* so the highest point of the surface never rises; the lowest point may
\* fall by more than the highest
C27_PolishNeverRaises ==
    last.op = "polish" =>
        LET before == get_surface_height(last.before)
            after == get_surface_height(materials)
        IN /\ \A x \in Cols : after[x] <= before[x]
           /\ SetMax({after[x] : x \in Cols}) <= SetMax({before[x] : x \in Cols})

\* A polish step on a surface planar within the tolerance of the process
\* that lowered some columns and left a surface that is not planar
C27_Witness ==
    /\ last.op = "polish"
    /\ is_planar(last.before, params, CmpTolerance)
    /\ ~is_planar(materials, params, CmpTolerance)
    /\ \E x \in Cols : get_surface_height(materials)[x] < get_surface_height(last.before)[x]

\* The columns of the trench window of the run (the via window lies inside)
TrenchCols ==
    LET c == EtchContext(params, params.wafer_width \div 2, params.trench_width,
                         TrenchDt, OXIDE, {})
    IN {x \in Cols : c.start_x <= x /\ x < c.end_x}

\* C28: in the default run, when the CMP Polish stage has ended and at Final
\* Structure, the columns of the etched trench and via still hold COPPER
C28_CopperSurvivesCmp ==
    (params = ProcessParameters /\ (idx = 7 \/ (idx = 6 /\ pc = "show")) /\ TrenchCols # {})
        => \E x \in TrenchCols : \E y \in Rows : materials[y][x] = COPPER

\* C29: generate_toc is idempotent: process_file applied to the text it has
\* just produced leaves that text as it is (a second run would report
\* 'unchanged' and a --check run would find nothing to change)
C29_TocIdempotent ==
    (Processed /\ last.status # "no-h1") =>
        ~process_file(last.updated, run.args.min_level, run.args.max_level, TRUE).changed

\* The lines generate_toc lists in the TOC: the headings outside the fenced
\* code blocks, with a text, of a level in the range, but for the TOC heading
ListedLines(lines, min_level, max_level) ==
    {k \in RealHeadings(lines) : /\ ~MatchesTocHeading(lines[k])
                                 /\ min_level <= lines[k].level
                                 /\ lines[k].level <= max_level
                                 /\ lines[k].text # << >>}

\* C30: for every heading generate_toc lists in the TOC of a file, in the
\* order of the lines, the anchor it emits is the anchor the loop of
\* check_links.collect_anchors computes for the heading on that line
C30_SameAnchors ==
    Processed =>
        LET lines == last.original.lines
            listed == ListedLines(lines, run.args.min_level, run.args.max_level)
            headings == collect_headings(lines, 1, FALSE, << >>, run.args.min_level,
                                         run.args.max_level)
            anchors == AnchorsByLine(lines, 1, FALSE, << >>)
        IN /\ Len(headings) = Cardinality(listed)
           /\ \A k \in 1..Len(headings) : \A j \in 1..Len(anchors) :
                 (anchors[j].line \in listed
                    /\ Cardinality({i \in listed : i <= anchors[j].line}) = k)
                     => headings[k].anchor = anchors[j].anchor

====
